---- MODULE Spec2Model ----
(***************************************************************************)
(* Rocktick: the scheduling and dispatch state machine rooted in the       *)
(* scheduled_jobs table.                                                   *)
(*                                                                         *)
(* The store is PostgreSQL at its default isolation level, READ COMMITTED. *)
(* Every SQL statement reads the snapshot taken when the statement starts. *)
(* A row lock (FOR UPDATE, UPDATE) is taken on the newest committed        *)
(* version of a row; when that version is newer than the snapshot, only    *)
(* the WHERE clause of the query level that takes the lock is evaluated    *)
(* again on it.  FOR UPDATE SKIP LOCKED passes over a row that another     *)
(* open transaction holds; a plain FOR UPDATE or UPDATE waits for it.      *)
(* Writes are visible to other transactions at commit, when the locks are  *)
(* released.  A transaction is therefore modelled by the start of its      *)
(* reading statement (the snapshot), its lock acquisition and its commit,  *)
(* and the steps of different transactions interleave.                     *)
(* Times are whole seconds.                                                *)
(*                                                                         *)
(* Spec          the broker: dispatch, recorder, lease reaper, token refill *)
(* DispatchSpec  dispatch and refill over one tenant with several due jobs  *)
(* FairSpec      Spec with the fairness of the loops and of the clock       *)
(* OneOffSpec    the one-off materializer, several instances                *)
(* RetrySpec     the retry planner, several instances                       *)
(* CronSpec      the cron expander                                          *)
(* RateSpec      dispatch, refund and refill of one tenant over an hour     *)
(* WorkflowSpec  the workflow schedulers and the recorder's side effect     *)
(* StoreSpec     the drone's local store of executions                      *)
(***************************************************************************)
EXTENDS Integers, Sequences, FiniteSets, TLC

\* SQL NULL of an integer column, and the tenant_id of an anonymous job.
NULL == -1
NoTenant == 0
\* A row no open transaction holds.
Free == "free"

----------------------------------------------------------------------------
\* Bounds of the model.
MaxNow == 300
MaxTokens == 1
TickSteps == {100}
\* DispatchSpec: the tenant's max_tokens and the number of its due jobs.
DispatchTokens == 2
NumDispatchJobs == 5
\* OneOffSpec: the number of one-off jobs.
NumOneOff == 2
\* RetrySpec: max_retries of the first row, the rows a chain may grow to, and
\* the seconds between scheduled_at and executed_at of an attempt.
MaxRetries == 2
MaxRetryRows == 4
ExecDelays == {0, 1}
MaxCronNow == 720
NumRateJobs == 4
RateInitTokens == 0
CronTickSteps == {360}
MaxWorkflows == 4
ChildMaxRetries == 1
WaitUntilSecs == 200
MaxWorkflowNow == 360
WorkflowTickSteps == {180}
NumStoreJobs == 2
MaxStoreNow == 7200
StoreTickSteps == {3600}
\* ReplicaSpec: the replications of one execution that are counted.
MaxReplications == 1
\* TenantSpec: the tenants created, and the largest tok_per_day, tokens and
\* max_tokens a request carries.
MaxTenants == 2
MaxTokenInput == 2

\* Program constants (seconds unless named Ms).
RegionLeadSecs == 3
SpilloverSecs == 5
DispatchLimit == 100
ReapSlackSecs == 90
ReapDefaultTimeoutMs == 120000
ReapSleepSecs == 15
MsPerSec == 1000
FiveMinutesSecs == 300
BaseDelayMs == 60000
MIN_PERIOD_MS == 60000
DAY_MS == 86400000
CronBacklogLimit == 60
CronSelectSecs == 600
CronTake == 70
CronHorizonSecs == 900
CronMaxCount == 60
SecsPerMinute == 60
SecsPerHour == 3600
WorkflowDelaySecs == 180

Callers == {"g1", "g2"}
Recorders == {"x1"}
Reapers == {"p1"}
Refillers == {"s1"}
OneOffSchedulers == {"o1", "o2"}
RetrySchedulers == {"y1", "y2"}
CronSchedulers == {"k1"}
NoExecutionSchedulers == {"a1"}
PendingSchedulers == {"b1", "b2"}
WaitedSchedulers == {"c1", "c2"}
Drivers == NoExecutionSchedulers \cup PendingSchedulers \cup WaitedSchedulers

\* A drone is resident in one region and names it in every GetJobs call.
\* One drone polls: the statements of two calls do not overlap.
FairCallers == {"g1"}

CallerRegion == [c \in Callers |-> IF c = "g1" THEN "r1" ELSE "r2"]

VARIABLES
  now,          \* the clock of the store and of the processes
  jobs,         \* scheduled_jobs: committed rows
  tenants,      \* tenants: committed rows
  jobLock,      \* row locks on scheduled_jobs held by open transactions
  tenantLock,   \* row locks on tenants held by open transactions
  executions,   \* job_executions: committed rows of each scheduled job
  frames,       \* (job_id, lock_nonce) of the JobSpecs streamed to drones
  acks,         \* RecordExecutionResponse messages sent, per job_id
  call,         \* GetJobs statements in progress
  reaper,       \* lease reaper loops
  one_off_jobs, \* one_off_jobs: committed rows
  materialized, \* scheduled_jobs rows inserted by the one-off materializer
  oneOffLock,   \* row locks on one_off_jobs
  oneoff,       \* one-off materializer loops
  retry_rows,   \* scheduled_jobs rows of retry chains, with their execution
  retryLock,    \* row locks on the rows of retry_rows
  planner,      \* retry planner loops
  cron_jobs,    \* cron_jobs: committed rows
  cron_rows,    \* scheduled_jobs rows inserted by the cron expander
  cron,         \* cron expander loops
  workflows,    \* workflows: committed rows
  workflow_executions,   \* workflow_executions: committed rows
  workflow_dependencies, \* workflow_dependencies: committed rows
  workflow_jobs, \* scheduled_jobs rows inserted for workflow executions
  workflowLock, \* row locks on workflows
  driver,       \* workflow scheduler loops
  store_executions, \* the drone store's executions: rows
  store_responses,  \* the drone store's execution_responses: ids
  store_call,   \* the last call of the drone store and what it returned
  removed       \* scheduled_jobs: ids of the rows deleted by the update API

brokerVars == <<now, jobs, tenants, jobLock, tenantLock, executions, frames,
                acks, call, reaper>>
brokerRest == <<jobs, tenants, jobLock, tenantLock, executions, frames, acks,
                call, reaper>>
oneOffVars == <<one_off_jobs, materialized, oneOffLock, oneoff>>
retryVars == <<retry_rows, retryLock, planner>>
cronVars == <<cron_jobs, cron_rows, cron>>
workflowVars == <<workflows, workflow_executions, workflow_dependencies,
                  workflow_jobs, workflowLock, driver>>
storeVars == <<store_executions, store_responses, store_call>>
extVars == <<cronVars, workflowVars, storeVars, removed>>
schedVars == <<oneOffVars, retryVars, extVars>>
vars == <<brokerVars, schedVars>>

JobIds == DOMAIN jobs
TenantIds == DOMAIN tenants

----------------------------------------------------------------------------
\* Helpers

Min(a, b) == IF a < b THEN a ELSE b
Max(a, b) == IF a > b THEN a ELSE b

\* ORDER BY scheduled_at ASC, id ASC
BeforeDescending(a, b) ==
  \/ jobs[a].scheduled_at > jobs[b].scheduled_at
  \/ jobs[a].scheduled_at = jobs[b].scheduled_at /\ a > b

Before(a, b) ==
  \/ jobs[a].scheduled_at < jobs[b].scheduled_at
  \/ jobs[a].scheduled_at = jobs[b].scheduled_at /\ a < b

\* The first n rows of S in dispatch order (ORDER BY ... LIMIT n).
FirstN(S, n) == {j \in S : Cardinality({k \in S : Before(k, j)}) < n}

Queued(j) == jobs[j].lock_nonce = NULL /\ jobs[j].execution_id = NULL
Leased(j) == jobs[j].lock_nonce # NULL /\ jobs[j].execution_id = NULL
Completed(j) == jobs[j].lock_nonce = NULL /\ jobs[j].execution_id # NULL

\* The region predicate without its test of the region.
AdmissibleAnywhere(j, region, t) ==
  jobs[j].scheduled_at <= t + RegionLeadSecs

\* The region predicate of the dispatch statement, at transaction time t.
Admissible(j, region, t) ==
  \/ jobs[j].region = region /\ jobs[j].scheduled_at <= t + RegionLeadSecs
  \/ jobs[j].scheduled_at <= t - SpilloverSecs

\* COALESCE(job.timeout_ms, tenant.max_timeout, 120000) / 1000
ReapTimeoutSecs(row, T) ==
  LET ms == IF row.timeout_ms # NULL THEN row.timeout_ms
            ELSE IF row.tenant_id # NoTenant
                 THEN T[row.tenant_id].max_timeout
                 ELSE ReapDefaultTimeoutMs
  IN ms \div MsPerSec

\* The WHERE clause of cleanup_candidates at transaction time t.
LeaseExpired(row, T, t) ==
  /\ row.lock_nonce # NULL
  /\ row.execution_id = NULL
  /\ row.lock_nonce + ReapTimeoutSecs(row, T) + ReapSlackSecs < t

\* cleanup_candidates over the tables J (scheduled_jobs) and T (tenants)
CleanupCandidates(J, T, t) == {j \in DOMAIN J : LeaseExpired(J[j], T, t)}

\* No statement is in progress, no transaction holds a row, and every reaper
\* loop is inside its sleep.
Quiet ==
  /\ \A c \in Callers : call[c].pc = "idle"
  /\ \A p \in Reapers :
       reaper[p].pc = "sleeping" /\ now < reaper[p].txnow + ReapSleepSecs
  /\ \A j \in JobIds : jobLock[j] = Free
  /\ \A t \in TenantIds : tenantLock[t] = Free

----------------------------------------------------------------------------
\* Initial state

IdleCall == [pc |-> "idle", queued |-> {}, active |-> {}]
IdleReaper == [pc |-> "idle", txnow |-> 0, cands |-> {}]
IdleScheduler == [pc |-> "idle", snapshot |-> {}, job |-> NULL]

JobRow(tenant, region, at, timeout) ==
  [tenant_id |-> tenant, region |-> region, scheduled_at |-> at,
   timeout_ms |-> timeout, lock_nonce |-> NULL, execution_id |-> NULL,
   times_locked |-> 0]

TenantRow(tokens, max_tokens) ==
  [tokens |-> tokens, max_tokens |-> max_tokens, increment |-> 1,
   period |-> 60, next_increment |-> 60, max_timeout |-> 2000]

\* One job of tenant 1 in region r1 and one anonymous job in region r2.
InitJobs ==
  (1 :> JobRow(1, "r1", 100, 1000)) @@ (2 :> JobRow(NoTenant, "r2", 103, 1000))

InitProcesses ==
  /\ jobLock = [j \in JobIds |-> Free]
  /\ tenantLock = [t \in TenantIds |-> Free]
  /\ executions = [j \in JobIds |-> <<>>]
  /\ frames = {}
  /\ acks = [j \in JobIds |-> 0]
  /\ call = [c \in Callers |-> IdleCall]
  /\ reaper = [p \in Reapers |-> IdleReaper]

\* The tables of the schedulers are empty.
NoOneOff ==
  /\ one_off_jobs = <<>>
  /\ materialized = <<>>
  /\ oneOffLock = <<>>
  /\ oneoff = [s \in OneOffSchedulers |-> IdleScheduler]

NoRetry ==
  /\ retry_rows = <<>>
  /\ retryLock = <<>>
  /\ planner = [s \in RetrySchedulers |-> IdleScheduler]

\* The tables of the cron expander are empty.
NoCron ==
  /\ cron_jobs = <<>>
  /\ cron_rows = <<>>
  /\ cron = [s \in CronSchedulers |-> IdleScheduler]

\* The tables of the workflow driver are empty.
NoWorkflow ==
  /\ workflows = <<>>
  /\ workflow_executions = <<>>
  /\ workflow_dependencies = <<>>
  /\ workflow_jobs = <<>>
  /\ workflowLock = {}
  /\ driver = [s \in Drivers |-> IdleScheduler]

\* The drone's store is empty.
NoStore ==
  /\ store_executions = {}
  /\ store_responses = {}
  /\ store_call = [op |-> "none", nonce |-> NULL, returned |-> NULL]

\* No row of scheduled_jobs was deleted.
NoUpdate == removed = {}

NoExt == NoCron /\ NoWorkflow /\ NoStore /\ NoUpdate

\* The tables of the broker are empty.
NoBroker ==
  /\ now = 0
  /\ jobs = <<>>
  /\ tenants = <<>>
  /\ InitProcesses

Init ==
  /\ now = 0
  /\ jobs = InitJobs
  /\ \E tk \in 0..MaxTokens : tenants = (1 :> TenantRow(tk, MaxTokens))
  /\ InitProcesses
  /\ NoOneOff
  /\ NoRetry
  /\ NoExt

----------------------------------------------------------------------------
\* The clock.  Every transaction is shorter than one step of the clock, and
\* the reaper loop waits nowhere but in its sleep of 15 seconds.

Tick ==
  /\ Quiet
  /\ \E d \in TickSteps : now + d <= MaxNow /\ now' = now + d
  /\ UNCHANGED <<jobs, tenants, jobLock, tenantLock, executions, frames, acks,
                 call, reaper, schedVars>>

----------------------------------------------------------------------------
\* Dispatch: get_jobs runs one statement in its own transaction.

\* The statement starts: now() and the snapshot are fixed.
GetJobsStart(c) ==
  /\ call[c].pc = "idle"
  /\ call' = [call EXCEPT ![c] =
       [pc |-> "started",
        queued |-> {j \in JobIds \ removed : Queued(j)},
        active |-> {t \in TenantIds : tenants[t].tokens > 0}]]
  /\ UNCHANGED <<now, jobs, tenants, jobLock, tenantLock, executions, frames,
                 acks, reaper, schedVars>>

\* active_tenants: FOR UPDATE SKIP LOCKED over the tenants of the snapshot
\* with tokens > 0, which is evaluated again on the newest version of a row.
ActiveTenants(c) ==
  {t \in call[c].active : tenantLock[t] = Free /\ tenants[t].tokens > 0}

\* The lateral subquery: queued rows of tenant t in the snapshot,
\* LIMIT t.tokens of the locked tenant row.
TenantCandidatesNoLimit(c, t) ==
  {j \in call[c].queued :
     /\ jobs[j].tenant_id = t
     /\ Admissible(j, CallerRegion[c], now)}

TenantCandidates(c, t) ==
  FirstN({j \in call[c].queued :
            /\ jobs[j].tenant_id = t
            /\ Admissible(j, CallerRegion[c], now)},
         tenants[t].tokens)

AnonymousCandidates(c) ==
  {j \in call[c].queued :
     /\ jobs[j].tenant_id = NoTenant
     /\ Admissible(j, CallerRegion[c], now)}

\* candidate_ids: ORDER BY and LIMIT 100 close the whole UNION ALL.
CandidateIds(c, T) ==
  FirstN(UNION {TenantCandidates(c, t) : t \in T} \cup AnonymousCandidates(c),
         DispatchLimit)

\* jobs_to_lock: FOR UPDATE SKIP LOCKED, WHERE id IN (candidate_ids)
JobsToLock(c, T) ==
  {j \in CandidateIds(c, T) \ removed : jobLock[j] = Free}

\* The statement takes its row locks.
GetJobsLock(c) ==
  /\ call[c].pc = "started"
  /\ LET T == ActiveTenants(c)
         J == JobsToLock(c, T)
     IN /\ tenantLock' = [t \in TenantIds |->
                            IF t \in T THEN c ELSE tenantLock[t]]
        /\ jobLock' = [j \in JobIds |-> IF j \in J THEN c ELSE jobLock[j]]
  /\ call' = [call EXCEPT ![c] = [pc |-> "locked", queued |-> {},
                                  active |-> {}]]
  /\ UNCHANGED <<now, jobs, tenants, executions, frames, acks, reaper,
                 schedVars>>

\* updated_jobs: WHERE id IN (jobs_to_lock)
LeaseRow(row, nonce) ==
  [row EXCEPT !.lock_nonce = nonce, !.times_locked = @ + 1]

\* updated_tenants: tokens = GREATEST(0, tokens - used_tokens)
DebitTokens(tokens, used) == Max(0, tokens - used)

UsedTokens(J, t) == Cardinality({j \in J : jobs[j].tenant_id = t})

\* updated_jobs, updated_tenants, the commit, and the JobSpecs streamed.
GetJobsCommit(c) ==
  /\ call[c].pc = "locked"
  /\ LET J == {j \in JobIds : jobLock[j] = c}
     IN /\ jobs' = [j \in JobIds |->
                      IF j \in J THEN LeaseRow(jobs[j], now) ELSE jobs[j]]
        /\ tenants' = [t \in TenantIds |->
                         IF UsedTokens(J, t) > 0
                         THEN [tenants[t] EXCEPT
                                 !.tokens = DebitTokens(@, UsedTokens(J, t))]
                         ELSE tenants[t]]
        /\ frames' = frames \cup {<<j, now>> : j \in J}
  /\ tenantLock' = [t \in TenantIds |->
                      IF tenantLock[t] = c THEN Free ELSE tenantLock[t]]
  /\ jobLock' = [j \in JobIds |-> IF jobLock[j] = c THEN Free ELSE jobLock[j]]
  /\ call' = [call EXCEPT ![c] = IdleCall]
  /\ UNCHANGED <<now, executions, acks, reaper, schedVars>>

----------------------------------------------------------------------------
\* Execution recorder: one task and one transaction per RecordExecution frame.

\* SELECT ... WHERE id = $1 AND lock_nonce = $2, on the newest version
LeaseMatches(f) == f[1] \notin removed /\ jobs[f[1]].lock_nonce = f[2]

\* SELECT ... FOR UPDATE waits for the row and finds it.
RecordLock(r, f) ==
  /\ \A j \in JobIds : jobLock[j] # r
  /\ jobLock[f[1]] = Free
  /\ LeaseMatches(f)
  /\ jobLock' = [jobLock EXCEPT ![f[1]] = r]
  /\ UNCHANGED <<now, jobs, tenants, tenantLock, executions, frames, acks,
                 call, reaper, schedVars>>

\* fetch_one finds no row: the task logs the error, the transaction is
\* rolled back and nothing is sent.
RecordNoRow(r, f) ==
  /\ \A j \in JobIds : jobLock[j] # r
  /\ jobLock[f[1]] = Free
  /\ ~LeaseMatches(f)
  /\ UNCHANGED vars

\* UPDATE scheduled_jobs SET execution_id = $2, lock_nonce = NULL
RecordRow(row, execution_id) ==
  [row EXCEPT !.execution_id = execution_id, !.lock_nonce = NULL]

\* A recorder that returns the token of a failed execution to its tenant.
RecordCommitRefund(r, success) ==
  \E j \in JobIds :
    /\ jobLock[j] = r
    /\ executions' = [executions EXCEPT ![j] =
                        Append(@, [success |-> success])]
    /\ jobs' = [jobs EXCEPT ![j] = RecordRow(@, Len(executions[j]) + 1)]
    /\ tenants' = [t \in TenantIds |->
                     IF ~success /\ jobs[j].tenant_id = t
                     THEN [tenants[t] EXCEPT !.tokens = @ + 1]
                     ELSE tenants[t]]
    /\ jobLock' = [jobLock EXCEPT ![j] = Free]
    /\ acks' = [acks EXCEPT ![j] = @ + 1]
    /\ UNCHANGED <<now, tenantLock, frames, call, reaper, schedVars>>

\* The inserts, the update, the commit and the ack.
RecordCommit(r, success) ==
  \E j \in JobIds :
    /\ jobLock[j] = r
    /\ executions' = [executions EXCEPT ![j] =
                        Append(@, [success |-> success])]
    /\ jobs' = [jobs EXCEPT ![j] = RecordRow(@, Len(executions[j]) + 1)]
    /\ jobLock' = [jobLock EXCEPT ![j] = Free]
    /\ acks' = [acks EXCEPT ![j] = @ + 1]
    /\ UNCHANGED <<now, tenants, tenantLock, frames, call, reaper, schedVars>>

----------------------------------------------------------------------------
\* Lease reaper: run_job_cleanup_loop

\* pool.begin(): now() of the statement is the time of BEGIN.
ReaperBegin(p) ==
  /\ reaper[p].pc = "idle"
  /\ reaper' = [reaper EXCEPT ![p] = [pc |-> "sleeping", txnow |-> now,
                                      cands |-> {}]]
  /\ UNCHANGED <<now, jobs, tenants, jobLock, tenantLock, executions, frames,
                 acks, call, schedVars>>

\* After the sleep the statement starts: cleanup_candidates is read from the
\* snapshot.  FOR UPDATE over a WITH query locks no row.
ReaperStatement(p) ==
  /\ reaper[p].pc = "sleeping"
  /\ now >= reaper[p].txnow + ReapSleepSecs
  /\ reaper' = [reaper EXCEPT
                  ![p].pc = "running",
                  ![p].cands = CleanupCandidates(jobs, tenants,
                                                 reaper[p].txnow)
                                 \ removed]
  /\ UNCHANGED <<now, jobs, tenants, jobLock, tenantLock, executions, frames,
                 acks, call, schedVars>>

\* reset_jobs: SET lock_nonce = NULL WHERE job.id = locked_candidates.job_id
ResetRowKeepsNonce(row) == row

ResetRow(row) == [row EXCEPT !.lock_nonce = NULL]

\* refunds: count(*) of reset_jobs per tenant
RefundTokens(J, C, t) == Cardinality({j \in C : J[j].tenant_id = t})

\* tokens = LEAST(max_tokens, tokens + refund_tokens)
CreditTokensNoCap(row, refund) ==
  [row EXCEPT !.tokens = row.tokens + refund]

CreditTokens(row, refund) ==
  [row EXCEPT !.tokens = Min(row.max_tokens, row.tokens + refund)]

\* scheduled_jobs and tenants after reset_jobs and the refund have acted on
\* the newest version of every candidate row.
ReapedJobs(J, C) ==
  [j \in DOMAIN J |-> IF j \in C THEN ResetRow(J[j]) ELSE J[j]]

ReapedTenants(J, T, C) ==
  [t \in DOMAIN T |->
     IF RefundTokens(J, C, t) > 0
     THEN CreditTokens(T[t], RefundTokens(J, C, t))
     ELSE T[t]]

\* The two UPDATEs wait for the rows other transactions hold, then the
\* transaction commits.
ReaperCommit(p) ==
  /\ reaper[p].pc = "running"
  /\ \A j \in reaper[p].cands : jobLock[j] = Free
  /\ \A t \in TenantIds :
       RefundTokens(jobs, reaper[p].cands, t) > 0 => tenantLock[t] = Free
  /\ jobs' = ReapedJobs(jobs, reaper[p].cands \ removed)
  /\ tenants' = ReapedTenants(jobs, tenants, reaper[p].cands \ removed)
  /\ reaper' = [reaper EXCEPT ![p] = IdleReaper]
  /\ UNCHANGED <<now, jobLock, tenantLock, executions, frames, acks, call,
                 schedVars>>

----------------------------------------------------------------------------
\* Token refill: TenantTokenScheduler::run_once

RefillCandidate(t) ==
  /\ tenants[t].next_increment < now
  /\ tenants[t].tokens < tenants[t].max_tokens

\* SELECT ... LIMIT 1 FOR UPDATE SKIP LOCKED finds a tenant.
RefillLock(s, t) ==
  /\ \A u \in TenantIds : tenantLock[u] # s
  /\ RefillCandidate(t)
  /\ tenantLock[t] = Free
  /\ tenantLock' = [tenantLock EXCEPT ![t] = s]
  /\ UNCHANGED <<now, jobs, tenants, jobLock, executions, frames, acks, call,
                 reaper, schedVars>>

NewTokensNoIncrement(row) == Min(row.tokens, row.max_tokens)

NewTokens(row) == Min(row.tokens + row.increment, row.max_tokens)

\* next_time that always keeps the old schedule.
NextTimeOnSchedule(row, t) == row.next_increment + row.period

NextTime(row, t) ==
  IF NewTokens(row) = row.max_tokens
  THEN t + Max(FiveMinutesSecs, row.period)
  ELSE IF t - row.next_increment > FiveMinutesSecs
       THEN t + row.period
       ELSE row.next_increment + row.period

\* UPDATE tenants SET tokens = $2, next_increment = $3, and the commit.
RefillCommit(s) ==
  \E t \in TenantIds :
    /\ tenantLock[t] = s
    /\ tenants' = [tenants EXCEPT ![t] =
         [@ EXCEPT !.tokens = NewTokens(tenants[t]),
                   !.next_increment = NextTime(tenants[t], now)]]
    /\ tenantLock' = [tenantLock EXCEPT ![t] = Free]
    /\ UNCHANGED <<now, jobs, jobLock, executions, frames, acks, call, reaper,
                   schedVars>>

----------------------------------------------------------------------------
Next ==
  \/ Tick
  \/ \E c \in Callers : GetJobsStart(c)
  \/ \E c \in Callers : GetJobsLock(c)
  \/ \E c \in Callers : GetJobsCommit(c)
  \/ \E r \in Recorders, f \in frames : RecordLock(r, f)
  \/ \E r \in Recorders, f \in frames : RecordNoRow(r, f)
  \/ \E r \in Recorders, success \in BOOLEAN : RecordCommit(r, success)
  \/ \E p \in Reapers : ReaperBegin(p)
  \/ \E p \in Reapers : ReaperStatement(p)
  \/ \E p \in Reapers : ReaperCommit(p)
  \/ \E s \in Refillers, t \in TenantIds : RefillLock(s, t)
  \/ \E s \in Refillers : RefillCommit(s)

Spec == Init /\ [][Next]_vars

----------------------------------------------------------------------------
\* Dispatch and refill over one tenant whose due jobs outnumber its tokens.

\* Jobs of tenant 1 in region r1, due for the callers of both regions.
DispatchJobs ==
  [j \in 1..NumDispatchJobs |-> JobRow(1, "r1", 90 + j, 1000)]

DispatchInit ==
  /\ now = 100
  /\ jobs = DispatchJobs
  /\ \E tk \in 0..DispatchTokens :
       tenants = (1 :> TenantRow(tk, DispatchTokens))
  /\ InitProcesses
  /\ NoOneOff
  /\ NoRetry
  /\ NoExt

DispatchNext ==
  \/ \E c \in Callers : GetJobsStart(c)
  \/ \E c \in Callers : GetJobsLock(c)
  \/ \E c \in Callers : GetJobsCommit(c)
  \/ \E s \in Refillers, t \in TenantIds : RefillLock(s, t)
  \/ \E s \in Refillers : RefillCommit(s)

DispatchSpec == DispatchInit /\ [][DispatchNext]_vars

----------------------------------------------------------------------------
\* One hour of one tenant: a slow refill period, more due jobs than tokens,
\* one polling drone, the recorder, the reaper and the refill scheduler.

RateTenant ==
  [TenantRow(RateInitTokens, RateInitTokens + 2) EXCEPT
     !.period = 1800, !.next_increment = 0]

RateInit ==
  /\ now = 300
  /\ jobs = [j \in 1..NumRateJobs |-> JobRow(1, "r1", 290 + j, 1000)]
  /\ tenants = (1 :> RateTenant)
  /\ InitProcesses
  /\ NoOneOff
  /\ NoRetry
  /\ NoExt

\* The hour from 300 to 3900, its end excluded.
RateTick ==
  /\ Quiet
  /\ \E d \in {1501, 1800} : now + d < 300 + SecsPerHour /\ now' = now + d
  /\ UNCHANGED <<brokerRest, schedVars>>

RateNext ==
  \/ RateTick
  \/ \E c \in FairCallers : GetJobsStart(c)
  \/ \E c \in FairCallers : GetJobsLock(c)
  \/ \E c \in FairCallers : GetJobsCommit(c)
  \/ \E r \in Recorders, f \in frames : RecordLock(r, f)
  \/ \E r \in Recorders, f \in frames : RecordNoRow(r, f)
  \/ \E r \in Recorders, success \in BOOLEAN : RecordCommit(r, success)
  \/ \E p \in Reapers : ReaperBegin(p)
  \/ \E p \in Reapers : ReaperStatement(p)
  \/ \E p \in Reapers : ReaperCommit(p)
  \/ \E s \in Refillers, t \in TenantIds : RefillLock(s, t)
  \/ \E s \in Refillers : RefillCommit(s)

RateSpec == RateInit /\ [][RateNext]_vars

----------------------------------------------------------------------------
\* One polling drone over a backlog of anonymous rows around the statement's
\* LIMIT and a few later rows of one tenant that holds tokens.

MaxLimitAnonymous == 101
MaxLimitTenantJobs == 2
MaxLimitTokens == 2

\* Anonymous rows 1..n are due first; the tenant's rows follow them in the
\* order of the statement.
LimitJobs(n, m) ==
  [j \in 1..(n + m) |->
     IF j <= n THEN JobRow(NoTenant, "r1", 100, 1000) ELSE JobRow(1, "r1", 150, 1000)]

LimitInit ==
  /\ now = 200
  /\ \E n \in (DispatchLimit - 3)..MaxLimitAnonymous, m \in 1..MaxLimitTenantJobs :
       jobs = LimitJobs(n, m)
  /\ \E tk \in 0..MaxLimitTokens : tenants = (1 :> TenantRow(tk, MaxLimitTokens))
  /\ InitProcesses
  /\ NoOneOff
  /\ NoRetry
  /\ NoExt

LimitNext ==
  \/ \E c \in FairCallers : GetJobsStart(c)
  \/ \E c \in FairCallers : GetJobsLock(c)
  \/ \E c \in FairCallers : GetJobsCommit(c)

LimitSpec == LimitInit /\ [][LimitNext]_vars

----------------------------------------------------------------------------
\* Fairness.  Every loop of the broker and of the scheduler runs forever,
\* so a step of a loop that stays possible is taken.  Time passes: the clock
\* reaches the end of the modelled span.  The UPDATEs of the reaper queue for the rows they
\* wait for, so the reaper commits when the rows are released again and
\* again.  No fairness is assumed of the drones' RecordExecution frames: a
\* drone may stall or disconnect.

JobIds0 == DOMAIN InitJobs

CanTick == \E d \in TickSteps : now + d <= MaxNow

FairNext ==
  \/ Tick
  \/ \E c \in FairCallers : GetJobsStart(c)
  \/ \E c \in FairCallers : GetJobsLock(c)
  \/ \E c \in FairCallers : GetJobsCommit(c)
  \/ \E r \in Recorders, f \in frames : RecordLock(r, f)
  \/ \E r \in Recorders, f \in frames : RecordNoRow(r, f)
  \/ \E r \in Recorders, success \in BOOLEAN : RecordCommit(r, success)
  \/ \E p \in Reapers : ReaperBegin(p)
  \/ \E p \in Reapers : ReaperStatement(p)
  \/ \E p \in Reapers : ReaperCommit(p)
  \/ \E s \in Refillers, t \in TenantIds : RefillLock(s, t)
  \/ \E s \in Refillers : RefillCommit(s)

FairSpec ==
  /\ Init /\ [][FairNext]_vars
  /\ <>[](~CanTick)
  /\ \A c \in FairCallers :
       /\ WF_vars(GetJobsStart(c))
       /\ WF_vars(GetJobsLock(c))
       /\ WF_vars(GetJobsCommit(c))
  /\ \A r \in Recorders : WF_vars(\E success \in BOOLEAN : RecordCommit(r, success))
  /\ \A p \in Reapers :
       /\ WF_vars(ReaperBegin(p))
       /\ WF_vars(ReaperStatement(p))
       /\ SF_vars(ReaperCommit(p))
  /\ \A s \in Refillers :
       /\ WF_vars(\E t \in {1} : RefillLock(s, t))
       /\ WF_vars(RefillCommit(s))

----------------------------------------------------------------------------
\* One-off materializer: OneOffScheduler::run_once

OneOffIds == DOMAIN one_off_jobs

\* DateTime::from_timestamp_secs, and the epoch seconds of a DateTime
FromTimestampSecs(secs) == [secs |-> secs, nanos |-> 0]
Timestamp(dt) == dt.secs

\* The anti-join: scheduled.id IS NULL
Unmaterialized(o) ==
  \A i \in 1..Len(materialized) : materialized[i].one_off_job_id # o

OneOffInit ==
  /\ \E D \in SUBSET (1..NumOneOff) :
       one_off_jobs = [o \in 1..NumOneOff |->
                         [execute_at |-> 4 + o, deleted |-> o \in D]]
  /\ materialized = <<>>
  /\ oneOffLock = [o \in 1..NumOneOff |-> Free]
  /\ oneoff = [s \in OneOffSchedulers |-> IdleScheduler]
  /\ NoBroker
  /\ NoRetry
  /\ NoExt

\* The SELECT starts: the join is read from the snapshot.
OneOffSelectStart(s) ==
  /\ oneoff[s].pc = "idle"
  /\ oneoff' = [oneoff EXCEPT ![s] =
       [pc |-> "selecting",
        snapshot |-> {o \in OneOffIds :
                        Unmaterialized(o) /\ ~one_off_jobs[o].deleted},
        job |-> NULL]]
  /\ UNCHANGED <<one_off_jobs, materialized, oneOffLock, brokerVars, retryVars, extVars>>

\* LIMIT 1 FOR UPDATE OF job SKIP LOCKED: a row of the snapshot that no open
\* transaction holds is locked.
OneOffLockRow(s, o) ==
  /\ oneoff[s].pc = "selecting"
  /\ o \in oneoff[s].snapshot
  /\ oneOffLock[o] = Free
  /\ oneOffLock' = [oneOffLock EXCEPT ![o] = s]
  /\ oneoff' = [oneoff EXCEPT ![s] =
                  [pc |-> "inserting", snapshot |-> {}, job |-> o]]
  /\ UNCHANGED <<one_off_jobs, materialized, brokerVars, retryVars, extVars>>

\* fetch_optional returns None: reached_end, the transaction is dropped.
OneOffReachedEnd(s) ==
  /\ oneoff[s].pc = "selecting"
  /\ \A o \in oneoff[s].snapshot : oneOffLock[o] # Free
  /\ oneoff' = [oneoff EXCEPT ![s] = IdleScheduler]
  /\ UNCHANGED <<one_off_jobs, materialized, oneOffLock, brokerVars, retryVars, extVars>>

\* INSERT INTO scheduled_jobs, and the commit.
OneOffInsert(s) ==
  /\ oneoff[s].pc = "inserting"
  /\ LET o == oneoff[s].job
         scheduled_time == FromTimestampSecs(one_off_jobs[o].execute_at)
     IN /\ materialized' = Append(materialized,
                                  [one_off_job_id |-> o,
                                   scheduled_at |-> scheduled_time])
        /\ oneOffLock' = [oneOffLock EXCEPT ![o] = Free]
  /\ oneoff' = [oneoff EXCEPT ![s] = IdleScheduler]
  /\ UNCHANGED <<one_off_jobs, brokerVars, retryVars, extVars>>

OneOffNext ==
  \/ \E s \in OneOffSchedulers : OneOffSelectStart(s)
  \/ \E s \in OneOffSchedulers, o \in OneOffIds : OneOffLockRow(s, o)
  \/ \E s \in OneOffSchedulers : OneOffReachedEnd(s)
  \/ \E s \in OneOffSchedulers : OneOffInsert(s)

OneOffSpec == OneOffInit /\ [][OneOffNext]_vars

----------------------------------------------------------------------------
\* The update API of one-off jobs next to the dispatch and the recorder:
\* update_job.  Row j of scheduled_jobs is the row materialized[j] of the
\* one-off materializer.

NumUpdateJobs == 2
UpdateTokens == 2

\* DELETE FROM scheduled_jobs WHERE one_off_job_id = $1 AND execution_id IS
\* NULL, on the newest version of every row.
UpdateDeletes(o) ==
  {j \in JobIds \ removed :
     /\ materialized[j].one_off_job_id = o
     /\ jobs[j].execution_id = NULL}

\* update_job: the job is locked, its rows without an execution are deleted,
\* the job gets its new execute_at, and the transaction commits.  The
\* statements wait for the rows other transactions hold.
UpdateJob(o, execute_at) ==
  /\ ~one_off_jobs[o].deleted
  /\ oneOffLock[o] = Free
  /\ \A j \in UpdateDeletes(o) : jobLock[j] = Free
  /\ removed' = removed \cup UpdateDeletes(o)
  /\ one_off_jobs' = [one_off_jobs EXCEPT ![o].execute_at = execute_at]
  /\ UNCHANGED <<brokerVars, materialized, oneOffLock, oneoff, retryVars,
                 cronVars, workflowVars, storeVars>>

UpdateInit ==
  /\ now = 100
  /\ jobs = [j \in 1..NumUpdateJobs |-> JobRow(1, "r1", 100, 1000)]
  /\ \E tk \in 1..UpdateTokens : tenants = (1 :> TenantRow(tk, UpdateTokens))
  /\ InitProcesses
  /\ one_off_jobs = [o \in 1..NumUpdateJobs |->
                       [execute_at |-> 100, deleted |-> FALSE]]
  /\ materialized = [j \in 1..NumUpdateJobs |->
                       [one_off_job_id |-> j,
                        scheduled_at |-> FromTimestampSecs(100)]]
  /\ oneOffLock = [o \in 1..NumUpdateJobs |-> Free]
  /\ oneoff = [s \in OneOffSchedulers |-> IdleScheduler]
  /\ NoRetry
  /\ NoExt

UpdateNext ==
  \/ \E c \in Callers : GetJobsStart(c)
  \/ \E c \in Callers : GetJobsLock(c)
  \/ \E c \in Callers : GetJobsCommit(c)
  \/ \E r \in Recorders, f \in frames : RecordLock(r, f)
  \/ \E r \in Recorders, f \in frames : RecordNoRow(r, f)
  \/ \E r \in Recorders, success \in BOOLEAN : RecordCommit(r, success)
  \/ \E o \in OneOffIds, execute_at \in {100, 101} : UpdateJob(o, execute_at)

UpdateSpec == UpdateInit /\ [][UpdateNext]_vars

----------------------------------------------------------------------------
\* Tenant API: create_tenant and update_tenant.  Each is one statement on the
\* pool, committed as it runs.

\* An optional field of a request body: <<>> is None, <<v>> is Some(v).
Option(S) == {<<>>} \cup {<<v>> : v \in S}

COALESCE(opt, old) == IF opt = <<>> THEN old ELSE opt[1]

\* compute_incr_and_period: the increment is ceil(MIN_PERIOD_MS / (DAY_MS /
\* tokens_per_day)) and the period DAY_MS / tokens_per_day * increment, in
\* seconds here.  A tokens_per_day of zero or less gives increment 0 and a
\* period of zero or less, which the casts turn into 0.
ComputeIncrement(tokens_per_day) ==
  IF tokens_per_day <= 0 THEN 0
  ELSE (tokens_per_day * MIN_PERIOD_MS + DAY_MS - 1) \div DAY_MS

ComputePeriod(tokens_per_day) ==
  IF tokens_per_day <= 0 THEN 0
  ELSE ((DAY_MS * ComputeIncrement(tokens_per_day)) \div tokens_per_day)
         \div MsPerSec

\* INSERT INTO tenants: tokens is tok_per_day, max_tokens is the request's.
CreateTenant(tok_per_day, max_tokens) ==
  LET t == Len(tenants) + 1 IN
  /\ Len(tenants) < MaxTenants
  /\ tenants' = Append(tenants,
       [TenantRow(tok_per_day, max_tokens) EXCEPT
          !.increment = ComputeIncrement(tok_per_day),
          !.period = ComputePeriod(tok_per_day),
          !.next_increment = now])
  /\ tenantLock' = [u \in 1..t |-> IF u = t THEN Free ELSE tenantLock[u]]
  /\ UNCHANGED <<now, jobs, jobLock, executions, frames, acks, call, reaper,
                 schedVars>>

\* UPDATE tenants SET tokens = COALESCE($1, tokens), max_tokens =
\* COALESCE($2, max_tokens), period = ..., increment = ... WHERE id = $12.
UpdateTenant(t, tokens, max_tokens, tok_per_day) ==
  /\ t \in TenantIds
  /\ tenantLock[t] = Free
  /\ tenants' = [tenants EXCEPT ![t] =
       [@ EXCEPT
          !.tokens = COALESCE(tokens, @),
          !.max_tokens = COALESCE(max_tokens, @),
          !.period =
            IF tok_per_day = <<>> THEN @ ELSE ComputePeriod(tok_per_day[1]),
          !.increment =
            IF tok_per_day = <<>> THEN @
            ELSE ComputeIncrement(tok_per_day[1])]]
  /\ UNCHANGED <<now, jobs, jobLock, tenantLock, executions, frames, acks,
                 call, reaper, schedVars>>

TokenInputs == -1..MaxTokenInput

TenantInit ==
  /\ NoBroker
  /\ NoOneOff
  /\ NoRetry
  /\ NoExt

TenantNext ==
  \/ \E tok_per_day \in TokenInputs, max_tokens \in TokenInputs :
       CreateTenant(tok_per_day, max_tokens)
  \/ \E t \in TenantIds, tokens \in Option(TokenInputs),
        max_tokens \in Option(TokenInputs), tok_per_day \in Option(TokenInputs) :
       UpdateTenant(t, tokens, max_tokens, tok_per_day)

TenantSpec == TenantInit /\ [][TenantNext]_vars

----------------------------------------------------------------------------
\* Retry planner: schedule_retry_job

RetryIds == 1..Len(retry_rows)

RetryRow(retry_for_id, max_retries, at) ==
  [retry_for_id |-> retry_for_id, max_retries |-> max_retries,
   scheduled_at |-> at, executed_at |-> NULL, success |-> FALSE]

\* a ^ b on unsigned integers: bitwise exclusive or
RECURSIVE BitXor(_, _)
BitXor(a, b) ==
  IF a = 0 /\ b = 0 THEN 0
  ELSE (((a % 2) + (b % 2)) % 2) + 2 * BitXor(a \div 2, b \div 2)

MaxOf(S) == CHOOSE x \in S : \A y \in S : y <= x

\* retry_chain: the rows reached from row i through s.retry_for_id = r.id,
\* and MAX(attempts_made) over them.
RECURSIVE RetryChainAttempts(_, _)
RetryChainAttempts(rows, i) ==
  LET S == {k \in 1..Len(rows) : rows[k].retry_for_id = i}
  IN IF S = {} THEN 0
     ELSE 1 + MaxOf({RetryChainAttempts(rows, k) : k \in S})

\* wait_time = base_delay_ms * (2 ^ attempts_made as u64)
WaitTime(attempts_made) == BaseDelayMs * BitXor(2, attempts_made)

\* executed_at + Duration::from_millis(wait_time)
NextRetryTime(executed_at, attempts_made) ==
  executed_at + WaitTime(attempts_made) \div MsPerSec

\* The WHERE clause of the planner's SELECT.
RetryCandidate(i) ==
  /\ retry_rows[i].executed_at # NULL
  /\ ~retry_rows[i].success
  /\ retry_rows[i].max_retries > 0
  /\ \A k \in RetryIds : retry_rows[k].retry_for_id # i

RetryInit ==
  /\ \E m \in 0..MaxRetries : retry_rows = <<RetryRow(NULL, m, 1)>>
  /\ retryLock = <<Free>>
  /\ planner = [s \in RetrySchedulers |-> IdleScheduler]
  /\ NoBroker
  /\ NoOneOff
  /\ NoExt

\* The execution of a row is recorded: job_executions.executed_at, success.
RetryExecuted(i, success, d) ==
  /\ retry_rows[i].executed_at = NULL
  /\ retryLock[i] = Free
  /\ retry_rows' = [retry_rows EXCEPT
                      ![i].executed_at = retry_rows[i].scheduled_at + d,
                      ![i].success = success]
  /\ UNCHANGED <<retryLock, planner, brokerVars, oneOffVars, extVars>>

\* The SELECT starts: both joins are read from the snapshot.
RetrySelectStart(s) ==
  /\ planner[s].pc = "idle"
  /\ planner' = [planner EXCEPT ![s] =
       [pc |-> "selecting",
        snapshot |-> {i \in RetryIds : RetryCandidate(i)},
        job |-> NULL]]
  /\ UNCHANGED <<retry_rows, retryLock, brokerVars, oneOffVars, extVars>>

\* LIMIT 1 FOR UPDATE OF job SKIP LOCKED
RetryLockRow(s, i) ==
  /\ planner[s].pc = "selecting"
  /\ i \in planner[s].snapshot
  /\ retryLock[i] = Free
  /\ retryLock' = [retryLock EXCEPT ![i] = s]
  /\ planner' = [planner EXCEPT ![s] =
                   [pc |-> "inserting", snapshot |-> {}, job |-> i]]
  /\ UNCHANGED <<retry_rows, brokerVars, oneOffVars, extVars>>

\* fetch_optional returns None: reached_end, the transaction is dropped.
RetryReachedEnd(s) ==
  /\ planner[s].pc = "selecting"
  /\ \A i \in planner[s].snapshot : retryLock[i] # Free
  /\ planner' = [planner EXCEPT ![s] = IdleScheduler]
  /\ UNCHANGED <<retry_rows, retryLock, brokerVars, oneOffVars, extVars>>

\* The retry_chain query, the INSERT of the successor, and the commit.
RetryInsert(s) ==
  /\ planner[s].pc = "inserting"
  /\ Len(retry_rows) < MaxRetryRows
  /\ LET to_retry == planner[s].job
         attempts_made == RetryChainAttempts(retry_rows, to_retry)
         attempts_remaining == retry_rows[to_retry].max_retries - 1
         next_time == NextRetryTime(retry_rows[to_retry].executed_at,
                                    attempts_made)
     IN /\ retry_rows' = Append(retry_rows,
                                RetryRow(to_retry, attempts_remaining,
                                         next_time))
        /\ retryLock' = [retryLock EXCEPT ![to_retry] = Free] \o <<Free>>
  /\ planner' = [planner EXCEPT ![s] = IdleScheduler]
  /\ UNCHANGED <<brokerVars, oneOffVars, extVars>>

RetryNext ==
  \/ \E i \in RetryIds, success \in BOOLEAN, d \in ExecDelays :
       RetryExecuted(i, success, d)
  \/ \E s \in RetrySchedulers : RetrySelectStart(s)
  \/ \E s \in RetrySchedulers, i \in RetryIds : RetryLockRow(s, i)
  \/ \E s \in RetrySchedulers : RetryReachedEnd(s)
  \/ \E s \in RetrySchedulers : RetryInsert(s)

RetrySpec == RetryInit /\ [][RetryNext]_vars

----------------------------------------------------------------------------
\* Cron expander: CronScheduler::run_once

exceptCron == <<oneOffVars, retryVars, workflowVars, storeVars, removed>>

CronIds == 1..Len(cron_jobs)
CronRowIds == 1..Len(cron_rows)

\* CronParser with Seconds::Optional: the period in seconds of the fire
\* times of a schedule, or NULL when the expression does not parse.
CronParse(schedule) ==
  CASE schedule = "* * * * * *" -> 1
    [] schedule = "* * * * *" -> SecsPerMinute
    [] schedule = "0 * * * *" -> SecsPerHour
    [] OTHER -> NULL

CronSchedules == {"* * * * * *", "* * * * *", "0 * * * *", "every minute"}

\* unexecuted_job_stats of one cron job
Unexecuted(c) ==
  {i \in CronRowIds :
     cron_rows[i].cron_job_id = c /\ cron_rows[i].execution_id = NULL}

\* The WHERE clause of the expander's SELECT.
Expandable(c) ==
  /\ Cardinality(Unexecuted(c)) < CronBacklogLimit
  /\ \A i \in Unexecuted(c) :
       cron_rows[i].scheduled_at <= now + CronSelectSecs
  /\ ~cron_jobs[c].error
  /\ ~cron_jobs[c].deleted

\* ORDER BY scheduled_at DESC LIMIT 1, or the default of unwrap_or: now.
LatestScheduled(c, t) ==
  LET S == {cron_rows[i].scheduled_at :
              i \in {k \in CronRowIds : cron_rows[k].cron_job_id = c}}
  IN IF S = {} THEN t ELSE MaxOf(S)

\* CronIterator::new(schedule, start_time, false, Forward).take(70): the
\* fire times after start_time, start_time itself excluded.
CronIterator(period, start_time) ==
  [k \in 1..CronTake |-> (start_time \div period + k) * period]

\* The loop over cron_times: a time is pushed before the two tests that
\* break the loop are made.
CronTimes(period, start_time, t) ==
  LET cron_times == CronIterator(period, start_time)
      Breaks(count) == \/ cron_times[count] - t > CronHorizonSecs
                       \/ count > CronMaxCount
      Stops == {count \in 1..CronTake : Breaks(count)}
      n == IF Stops = {} THEN CronTake
           ELSE CHOOSE count \in Stops : \A k \in Stops : count <= k
  IN SubSeq(cron_times, 1, n)

CronInit ==
  /\ \E schedule \in CronSchedules, deleted \in BOOLEAN :
       cron_jobs = <<[schedule |-> schedule, error |-> FALSE,
                      deleted |-> deleted]>>
  /\ cron_rows = <<>>
  /\ cron = [s \in CronSchedulers |-> IdleScheduler]
  /\ NoBroker
  /\ NoUpdate
  /\ NoOneOff
  /\ NoRetry
  /\ NoWorkflow
  /\ NoStore

\* Time passes while no expander transaction is open.
CronTick ==
  /\ \A s \in CronSchedulers : cron[s].pc = "idle"
  /\ \E d \in CronTickSteps : now + d <= MaxCronNow /\ now' = now + d
  /\ UNCHANGED <<brokerRest, cronVars, exceptCron>>

\* The earliest due row of a cron job is dispatched and its execution is
\* recorded.
CronExecuted(i) ==
  /\ cron_rows[i].execution_id = NULL
  /\ cron_rows[i].scheduled_at <= now
  /\ \A k \in Unexecuted(cron_rows[i].cron_job_id) :
       cron_rows[i].scheduled_at <= cron_rows[k].scheduled_at
  /\ cron_rows' = [cron_rows EXCEPT ![i].execution_id = i]
  /\ UNCHANGED <<cron_jobs, cron, brokerVars, exceptCron>>

\* The SELECT starts: the statistics are read from the snapshot.
CronSelectStart(s) ==
  /\ cron[s].pc = "idle"
  /\ cron' = [cron EXCEPT ![s] =
       [pc |-> "selecting",
        snapshot |-> {c \in CronIds : Expandable(c)},
        job |-> NULL]]
  /\ UNCHANGED <<cron_jobs, cron_rows, brokerVars, exceptCron>>

\* LIMIT 1 FOR UPDATE OF job SKIP LOCKED
CronLockRow(s, c) ==
  /\ cron[s].pc = "selecting"
  /\ c \in cron[s].snapshot
  /\ cron' = [cron EXCEPT ![s] =
                [pc |-> "expanding", snapshot |-> {}, job |-> c]]
  /\ UNCHANGED <<cron_jobs, cron_rows, brokerVars, exceptCron>>

\* fetch_optional returns None: reached_end, the transaction is dropped.
CronReachedEnd(s) ==
  /\ cron[s].pc = "selecting"
  /\ cron[s].snapshot = {}
  /\ cron' = [cron EXCEPT ![s] = IdleScheduler]
  /\ UNCHANGED <<cron_jobs, cron_rows, brokerVars, exceptCron>>

\* The schedule does not parse: cron_jobs.error is set, and the commit.
CronParseError(s) ==
  /\ cron[s].pc = "expanding"
  /\ CronParse(cron_jobs[cron[s].job].schedule) = NULL
  /\ cron_jobs' = [cron_jobs EXCEPT ![cron[s].job].error = TRUE]
  /\ cron' = [cron EXCEPT ![s] = IdleScheduler]
  /\ UNCHANGED <<cron_rows, brokerVars, exceptCron>>

\* latest_scheduled, the loop over the fire times, one INSERT for every time
\* pushed, and the commit.
CronExpand(s) ==
  /\ cron[s].pc = "expanding"
  /\ LET cron_job == cron[s].job
         period == CronParse(cron_jobs[cron_job].schedule)
         start_time == Max(LatestScheduled(cron_job, now), now)
         times == CronTimes(period, start_time, now)
     IN /\ period # NULL
        /\ cron_rows' = cron_rows \o
             [k \in 1..Len(times) |->
                [cron_job_id |-> cron_job, scheduled_at |-> times[k],
                 execution_id |-> NULL]]
  /\ cron' = [cron EXCEPT ![s] = IdleScheduler]
  /\ UNCHANGED <<cron_jobs, brokerVars, exceptCron>>

CronNext ==
  \/ CronTick
  \/ \E i \in CronRowIds : CronExecuted(i)
  \/ \E s \in CronSchedulers : CronSelectStart(s)
  \/ \E s \in CronSchedulers, c \in CronIds : CronLockRow(s, c)
  \/ \E s \in CronSchedulers : CronReachedEnd(s)
  \/ \E s \in CronSchedulers : CronParseError(s)
  \/ \E s \in CronSchedulers : CronExpand(s)

CronSpec == CronInit /\ [][CronNext]_vars

----------------------------------------------------------------------------
\* Workflow driver: NoExecutionScheduler, PendingExecutionScheduler,
\* WaitedExecutionScheduler and the recorder's side effect.  A JSON value is
\* written as the text of the body it was parsed from.

exceptWorkflow == <<oneOffVars, retryVars, cronVars, storeVars, removed>>

WorkflowIds == 1..Len(workflows)

\* None in a text or JSON column
Absent == "NULL"

\* The drone returned no response: the body is Err(response_error).
NoResponse == "no response"

\* The response bodies of an implementation: text that is no JSON, JSON
\* that is no ReturnedData, and ReturnedData with one of its fields set.
Bodies == {"not json", "5", "{error}", "{new_children}", "{new_waits}",
           "{new_steps}", "{result}"}

ChildNames == {"a", "b"}

\* serde_json::from_value::<ReturnedData>(json) and the accessors of
\* ReturnedData; ok is FALSE when the value has not the shape of V1.
ReturnedData(json) ==
  [ok |-> json # "5",
   new_steps |-> IF json = "{new_steps}" THEN {"s"} ELSE {},
   new_children |-> IF json = "{new_children}" THEN ChildNames ELSE {},
   new_waits |-> IF json = "{new_waits}" THEN {"t"} ELSE {},
   result |-> json = "{result}",
   error |-> json = "{error}"]

\* WorkflowExecutionResult::from_body without the test of returned_data.error()
FromBodyErrorUntested(body) ==
  IF body = NoResponse
  THEN [type |-> "Failure", reason |-> body, value |-> Absent]
  ELSE IF body = "not json"
  THEN [type |-> "Failure", reason |-> "Failed to parse as json",
        value |-> Absent]
  ELSE IF ~ReturnedData(body).ok
  THEN [type |-> "FailureWithJson",
        reason |-> "Returned data failed to match the expected format",
        value |-> body]
  ELSE [type |-> "Success", reason |-> Absent, value |-> body]

\* WorkflowExecutionResult::from_body
FromBody(body) ==
  IF body = NoResponse
  THEN [type |-> "Failure", reason |-> body, value |-> Absent]
  ELSE IF body = "not json"
  THEN [type |-> "Failure", reason |-> "Failed to parse as json",
        value |-> Absent]
  ELSE IF ~ReturnedData(body).ok
  THEN [type |-> "FailureWithJson",
        reason |-> "Returned data failed to match the expected format",
        value |-> body]
  ELSE IF ReturnedData(body).error
  THEN [type |-> "FailureWithJson",
        reason |-> "Workflow implementation returned an error",
        value |-> body]
  ELSE [type |-> "Success", reason |-> Absent, value |-> body]

\* WorkflowExecutionResult::to_data with every failure 'completed'
ToDataAllCompleted(r) ==
  [status |-> "completed", result_json |-> r.value,
   failure_reason |-> r.reason]

\* WorkflowExecutionResult::to_data
ToData(r) ==
  CASE r.type = "Failure" ->
         [status |-> "failed", result_json |-> Absent,
          failure_reason |-> r.reason]
    [] r.type = "FailureWithJson" ->
         [status |-> "failed", result_json |-> r.value,
          failure_reason |-> r.reason]
    [] r.type = "Success" ->
         [status |-> "completed", result_json |-> r.value,
          failure_reason |-> Absent]

\* WorkflowContext::new
NewContext ==
  [steps |-> {}, child_workflows |-> {}, completed_waits |-> {},
   prev_errors |-> 0]

\* A row of workflows as PendingExecutionScheduler inserts it.
WorkflowRow(url, max_retries) ==
  [implementation_url |-> url, status |-> "pending",
   max_retries |-> max_retries, result |-> Absent, error |-> Absent,
   context |-> NewContext]

\* create_workflow_execution
ExecutionRow(w, index, is_retry) ==
  [workflow_id |-> w, execution_index |-> index, status |-> "pending",
   is_retry |-> is_retry, executed_at |-> NULL, result_json |-> Absent,
   failure_reason |-> Absent]

\* A dependency that loses the name of its child.
ChildDependencyOneName(e, name, child) ==
  [workflow_execution_id |-> e, child_workflow_name |-> "a",
   child_workflow_id |-> child, wait_name |-> Absent, wait_until |-> NULL]

ChildDependency(e, name, child) ==
  [workflow_execution_id |-> e, child_workflow_name |-> name,
   child_workflow_id |-> child, wait_name |-> Absent, wait_until |-> NULL]

WaitDependency(e, name, until) ==
  [workflow_execution_id |-> e, child_workflow_name |-> Absent,
   child_workflow_id |-> NULL, wait_name |-> name, wait_until |-> until]

\* SELECT * FROM workflow_executions WHERE workflow_id = $1
ExecutionsOf(w) ==
  {e \in 1..Len(workflow_executions) :
     workflow_executions[e].workflow_id = w}

\* executions.last() under ORDER BY execution_index ASC
LatestExecution(w) ==
  CHOOSE e \in ExecutionsOf(w) :
    \A k \in ExecutionsOf(w) :
      \/ workflow_executions[k].execution_index
           < workflow_executions[e].execution_index
      \/ /\ workflow_executions[k].execution_index
              = workflow_executions[e].execution_index
         /\ k <= e

\* The dependencies of the executions of a workflow.
DependenciesOf(w) ==
  {d \in 1..Len(workflow_dependencies) :
     workflow_dependencies[d].workflow_execution_id \in ExecutionsOf(w)}

\* retry_count: the executions with is_retry
RetryCount(w) ==
  Cardinality({e \in ExecutionsOf(w) : workflow_executions[e].is_retry})

\* The executions whose result_json parses as ReturnedData.
Returned(w) ==
  {e \in ExecutionsOf(w) :
     /\ workflow_executions[e].result_json # Absent
     /\ ReturnedData(workflow_executions[e].result_json).ok}

\* The names of the children, and of the waits, that the executions of a
\* workflow declared and that have no dependency yet.
NewChildren(w) ==
  UNION {ReturnedData(workflow_executions[e].result_json).new_children :
           e \in Returned(w)}
    \ {workflow_dependencies[d].child_workflow_name : d \in DependenciesOf(w)}

NewWaits(w) ==
  UNION {ReturnedData(workflow_executions[e].result_json).new_waits :
           e \in Returned(w)}
    \ {workflow_dependencies[d].wait_name : d \in DependenciesOf(w)}

\* WorkflowContext::ingest_execution over the executions and
\* WorkflowContext::ingest_dependency over the dependencies.
WorkflowContext(w) ==
  LET Failed(e) == /\ workflow_executions[e].failure_reason # Absent
                   /\ workflow_executions[e].executed_at # NULL
      Unparsed(e) == /\ ~Failed(e)
                     /\ workflow_executions[e].result_json # Absent
                     /\ e \notin Returned(w)
      Waited(d) == /\ workflow_dependencies[d].wait_name # Absent
                   /\ workflow_dependencies[d].wait_until # NULL
                   /\ workflow_dependencies[d].wait_until < now
      Children == {d \in DependenciesOf(w) :
                     /\ ~Waited(d)
                     /\ workflow_dependencies[d].child_workflow_name # Absent
                     /\ workflow_dependencies[d].child_workflow_id # NULL}
      Child(d) == workflows[workflow_dependencies[d].child_workflow_id]
  IN [steps |->
        UNION {ReturnedData(workflow_executions[e].result_json).new_steps :
                 e \in {k \in Returned(w) : ~Failed(k)}},
      child_workflows |->
        {<<workflow_dependencies[d].child_workflow_name, "success">> :
           d \in {k \in Children : Child(k).result # Absent}}
        \cup
        {<<workflow_dependencies[d].child_workflow_name, "failure">> :
           d \in {k \in Children : /\ Child(k).result = Absent
                                    /\ Child(k).error # Absent}},
      completed_waits |->
        {workflow_dependencies[d].wait_name :
           d \in {k \in DependenciesOf(w) : Waited(k)}},
      prev_errors |->
        Cardinality({e \in ExecutionsOf(w) : Failed(e) \/ Unparsed(e)})]

Terminal(e) == workflow_executions[e].status \in {"completed", "failed"}

\* The WHERE clause of each scheduler's SELECT of a workflow.
\* The SELECT of the NoExecution scheduler without its NOT EXISTS subquery.
NoExecutionSelectableAny(w) == w \in WorkflowIds

NoExecutionSelectable(w) == \A e \in ExecutionsOf(w) : Terminal(e)

PendingSelectable(w) ==
  /\ \E e \in ExecutionsOf(w) : workflow_executions[e].status = "pending"
  /\ \A e \in ExecutionsOf(w) :
       workflow_executions[e].status = "pending" \/ Terminal(e)

\* The SELECT of the WaitedExecution scheduler without its third subquery.
WaitedSelectableUnblocked(w) ==
  /\ \E e \in ExecutionsOf(w) : workflow_executions[e].status = "waiting"
  /\ \A e \in ExecutionsOf(w) :
       workflow_executions[e].status = "waiting" \/ Terminal(e)

WaitedSelectable(w) ==
  /\ \E e \in ExecutionsOf(w) : workflow_executions[e].status = "waiting"
  /\ \A e \in ExecutionsOf(w) :
       workflow_executions[e].status = "waiting" \/ Terminal(e)
  /\ \A d \in DependenciesOf(w) :
       LET dep == workflow_dependencies[d]
       IN /\ ~(dep.wait_until # NULL /\ dep.wait_until > now)
          /\ ~(/\ dep.child_workflow_id # NULL
               /\ workflows[dep.child_workflow_id].status = "pending")

Selectable(s, w) ==
  CASE s \in NoExecutionSchedulers -> NoExecutionSelectable(w)
    [] s \in PendingSchedulers -> PendingSelectable(w)
    [] s \in WaitedSchedulers -> WaitedSelectable(w)

\* The bodies an implementation answers with.  The implementation behind
\* "parent" declares the children of ChildNames until its context holds
\* the outcome of each of them and then returns a result; the one behind
\* "leaf" answers anything.
Responses(w) ==
  IF workflows[w].implementation_url = "parent"
  THEN IF ChildNames
            \subseteq {c[1] : c \in workflows[w].context.child_workflows}
       THEN {"{result}"}
       ELSE {"{new_children}"}
  ELSE Bodies \cup {NoResponse}

NoWorkflowRows ==
  /\ workflow_jobs = <<>>
  /\ workflowLock = {}
  /\ driver = [s \in Drivers |-> IdleScheduler]

\* Workflows are inserted by a client of the store.  The initial states are
\* a workflow without executions, a workflow whose first execution is
\* pending, a workflow whose first execution declared two children, that
\* workflow with both children materialized and finalized, and a workflow
\* whose first execution declared a wait.
WorkflowInit ==
  /\ \/ /\ \E url \in {"parent", "leaf"} :
             workflows = <<WorkflowRow(url, ChildMaxRetries)>>
        /\ workflow_executions = <<>>
        /\ workflow_dependencies = <<>>
     \/ /\ \E url \in {"parent", "leaf"} :
             workflows = <<WorkflowRow(url, ChildMaxRetries)>>
        /\ workflow_executions = <<ExecutionRow(1, 0, FALSE)>>
        /\ workflow_dependencies = <<>>
     \/ /\ workflows = <<WorkflowRow("parent", ChildMaxRetries)>>
        /\ workflow_executions =
             <<[ExecutionRow(1, 0, FALSE) EXCEPT
                  !.status = "completed", !.executed_at = 0,
                  !.result_json = "{new_children}"],
               ExecutionRow(1, 1, FALSE)>>
        /\ workflow_dependencies = <<>>
     \/ /\ workflows =
             <<WorkflowRow("parent", ChildMaxRetries),
               [WorkflowRow("leaf", ChildMaxRetries) EXCEPT
                  !.status = "completed", !.result = "{result}"],
               [WorkflowRow("leaf", ChildMaxRetries) EXCEPT
                  !.status = "failed", !.error = NoResponse]>>
        /\ workflow_executions =
             <<[ExecutionRow(1, 0, FALSE) EXCEPT
                  !.status = "completed", !.executed_at = 0,
                  !.result_json = "{new_children}"],
               [ExecutionRow(1, 1, FALSE) EXCEPT !.status = "waiting"],
               [ExecutionRow(2, 0, FALSE) EXCEPT
                  !.status = "completed", !.executed_at = 0,
                  !.result_json = "{result}"],
               [ExecutionRow(3, 0, FALSE) EXCEPT
                  !.status = "failed", !.executed_at = 0,
                  !.failure_reason = NoResponse],
               [ExecutionRow(3, 1, TRUE) EXCEPT
                  !.status = "failed", !.executed_at = 0,
                  !.failure_reason = NoResponse]>>
        /\ workflow_dependencies =
             <<ChildDependency(2, "a", 2), ChildDependency(2, "b", 3)>>
     \/ /\ workflows = <<WorkflowRow("leaf", ChildMaxRetries)>>
        /\ workflow_executions =
             <<[ExecutionRow(1, 0, FALSE) EXCEPT
                  !.status = "completed", !.executed_at = 0,
                  !.result_json = "{new_waits}"],
               ExecutionRow(1, 1, FALSE)>>
        /\ workflow_dependencies = <<>>
  /\ NoWorkflowRows
  /\ NoBroker
  /\ NoUpdate
  /\ NoOneOff
  /\ NoRetry
  /\ NoCron
  /\ NoStore

\* Time passes while no transaction of a workflow scheduler is open.
WorkflowTick ==
  /\ \A s \in Drivers : driver[s].pc \in {"idle", "stopped"}
  /\ \E d \in WorkflowTickSteps :
       now + d <= MaxWorkflowNow /\ now' = now + d
  /\ UNCHANGED <<brokerRest, workflowVars, exceptWorkflow>>

\* The SELECT of a workflow starts: its subqueries read the snapshot.
WorkflowSelectStart(s) ==
  /\ driver[s].pc = "idle"
  /\ driver' = [driver EXCEPT ![s] =
       [pc |-> "selecting",
        snapshot |-> {w \in WorkflowIds : Selectable(s, w)},
        job |-> NULL]]
  /\ UNCHANGED <<workflows, workflow_executions, workflow_dependencies,
                 workflow_jobs, workflowLock, brokerVars, exceptWorkflow>>

\* LIMIT 1 FOR UPDATE SKIP LOCKED
WorkflowLockRow(s, w) ==
  /\ driver[s].pc = "selecting"
  /\ w \in driver[s].snapshot \ workflowLock
  /\ workflowLock' = workflowLock \cup {w}
  /\ driver' = [driver EXCEPT ![s] =
                  [pc |-> "running", snapshot |-> {}, job |-> w]]
  /\ UNCHANGED <<workflows, workflow_executions, workflow_dependencies,
                 workflow_jobs, brokerVars, exceptWorkflow>>

\* fetch_optional returns None: reached_end, the transaction is dropped.
WorkflowReachedEnd(s) ==
  /\ driver[s].pc = "selecting"
  /\ driver[s].snapshot \subseteq workflowLock
  /\ driver' = [driver EXCEPT ![s] = IdleScheduler]
  /\ UNCHANGED <<workflows, workflow_executions, workflow_dependencies,
                 workflow_jobs, workflowLock, brokerVars, exceptWorkflow>>

\* finalize_workflow_success and finalize_workflow_error
FinalizeSuccess(w, result) ==
  [workflows EXCEPT ![w].status = "completed", ![w].result = result,
                    ![w].context = WorkflowContext(w)]

FinalizeError(w, error) ==
  [workflows EXCEPT ![w].status = "failed", ![w].error = error,
                    ![w].context = WorkflowContext(w)]

\* The statements of NoExecutionScheduler::run_once after the SELECT of the
\* workflow, and whether the path taken ends in tx.commit(): only the last
\* one does, and every other path returns with the transaction open.
NoExecutionStatements(w) ==
  LET Create(index, is_retry) ==
        Append(workflow_executions, ExecutionRow(w, index, is_retry))
      latest_execution == workflow_executions[LatestExecution(w)]
      retry_count == RetryCount(w)
      is_retry == NewChildren(w) \cup NewWaits(w) = {}
  IN IF ExecutionsOf(w) = {}
     THEN [executions |-> Create(0, FALSE), workflows |-> workflows,
           commit |-> FALSE]
     ELSE IF latest_execution.result_json # Absent
     THEN [executions |-> workflow_executions,
           workflows |-> FinalizeSuccess(w, latest_execution.result_json),
           commit |-> FALSE]
     ELSE IF latest_execution.failure_reason # Absent
     THEN IF retry_count = workflows[w].max_retries
          THEN [executions |-> workflow_executions,
                workflows |->
                  FinalizeError(w, latest_execution.failure_reason),
                commit |-> FALSE]
          ELSE [executions |->
                  Create(latest_execution.execution_index + 1, TRUE),
                workflows |-> workflows, commit |-> FALSE]
     ELSE IF is_retry /\ retry_count = workflows[w].max_retries
     THEN [executions |-> workflow_executions,
           workflows |-> FinalizeError(w, "Cannot retry execution"),
           commit |-> FALSE]
     ELSE [executions |->
             Create(latest_execution.execution_index + 1, is_retry),
           workflows |-> workflows, commit |-> TRUE]

\* NoExecutionScheduler::run_once from the second statement on.  A
\* transaction that is dropped without commit is rolled back.
NoExecutionRun(s) ==
  /\ s \in NoExecutionSchedulers
  /\ driver[s].pc = "running"
  /\ LET done == NoExecutionStatements(driver[s].job)
     IN /\ workflow_executions' =
             IF done.commit THEN done.executions ELSE workflow_executions
        /\ workflows' = IF done.commit THEN done.workflows ELSE workflows
  /\ workflowLock' = workflowLock \ {driver[s].job}
  /\ driver' = [driver EXCEPT ![s] = IdleScheduler]
  /\ UNCHANGED <<workflow_dependencies, workflow_jobs, brokerVars,
                 exceptWorkflow>>

\* The names of a HashMap in the order of its iteration.
NameSeq(S) ==
  CHOOSE f \in [1..Cardinality(S) -> S] : \A x \in S : \E k \in DOMAIN f : f[k] = x

\* fetch_one finds no 'pending', or no 'waiting', execution: run_once
\* returns the error and the scheduling loop of this instance ends.
WorkflowRowNotFound(s) ==
  /\ s \in PendingSchedulers \cup WaitedSchedulers
  /\ driver[s].pc = "running"
  /\ ~\E e \in ExecutionsOf(driver[s].job) :
        workflow_executions[e].status
          = (IF s \in PendingSchedulers THEN "pending" ELSE "waiting")
  /\ workflowLock' = workflowLock \ {driver[s].job}
  /\ driver' = [driver EXCEPT ![s] =
                  [pc |-> "stopped", snapshot |-> {}, job |-> NULL]]
  /\ UNCHANGED <<workflows, workflow_executions, workflow_dependencies,
                 workflow_jobs, brokerVars, exceptWorkflow>>

\* PendingExecutionScheduler::run_once from the second statement on: a
\* child workflow and a dependency for every new child, a dependency for
\* every new wait, and the execution becomes 'waiting'.
PendingExecutionRun(s) ==
  /\ s \in PendingSchedulers
  /\ driver[s].pc = "running"
  /\ LET w == driver[s].job
         Pending == {e \in ExecutionsOf(w) :
                       workflow_executions[e].status = "pending"}
         children == NameSeq(NewChildren(w))
         waits == NameSeq(NewWaits(w))
     IN /\ Pending # {}
        /\ Len(workflows) + Len(children) <= MaxWorkflows
        /\ \E pending_execution \in Pending :
             /\ workflows' = workflows \o
                  [k \in 1..Len(children) |->
                     WorkflowRow("leaf", ChildMaxRetries)]
             /\ workflow_dependencies' = workflow_dependencies
                  \o [k \in 1..Len(children) |->
                        ChildDependency(pending_execution, children[k],
                                        Len(workflows) + k)]
                  \o [k \in 1..Len(waits) |->
                        WaitDependency(pending_execution, waits[k],
                                       WaitUntilSecs)]
             /\ workflow_executions' =
                  [workflow_executions EXCEPT
                     ![pending_execution].status = "waiting"]
  /\ workflowLock' = workflowLock \ {driver[s].job}
  /\ driver' = [driver EXCEPT ![s] = IdleScheduler]
  /\ UNCHANGED <<workflow_jobs, brokerVars, exceptWorkflow>>

\* wait_factor: ^ is the exclusive or of Rust.
WaitFactor(is_retry, retry_count) ==
  IF is_retry THEN BitXor(2, retry_count) ELSE 1

\* WaitedExecutionScheduler::run_once from the second statement on: the
\* context is stored, a row of scheduled_jobs is inserted for the waiting
\* execution, and the execution becomes 'scheduled'.
WaitedExecutionRun(s) ==
  /\ s \in WaitedSchedulers
  /\ driver[s].pc = "running"
  /\ LET w == driver[s].job
         Waiting == {e \in ExecutionsOf(w) :
                       workflow_executions[e].status = "waiting"}
     IN /\ Waiting # {}
        /\ \E last_execution \in Waiting :
             /\ workflows' =
                  [workflows EXCEPT ![w].context = WorkflowContext(w)]
             /\ workflow_jobs' = Append(workflow_jobs,
                  [workflow_id |-> w,
                   workflow_execution_id |-> last_execution,
                   scheduled_at |-> now + WorkflowDelaySecs
                     * WaitFactor(workflow_executions[last_execution].is_retry,
                                  RetryCount(w)),
                   execution_id |-> NULL, response_body |-> Absent,
                   response_error |-> Absent])
             /\ workflow_executions' =
                  [workflow_executions EXCEPT
                     ![last_execution].status = "scheduled"]
  /\ workflowLock' = workflowLock \ {driver[s].job}
  /\ driver' = [driver EXCEPT ![s] = IdleScheduler]
  /\ UNCHANGED <<workflow_dependencies, brokerVars, exceptWorkflow>>

\* The UPDATE of handle_workflow_execution_side_effect
SideEffect(execution, body, executed_at) ==
  LET data == ToData(FromBody(body))
  IN [execution EXCEPT !.status = data.status,
                       !.executed_at = executed_at,
                       !.result_json = data.result_json,
                       !.failure_reason = data.failure_reason]

\* record_execution for a due row of scheduled_jobs that belongs to a
\* workflow execution: the drone posted the context and reports the
\* response; the side effect waits for the lock of the workflow.
WorkflowRecord(j, body) ==
  /\ workflow_jobs[j].execution_id = NULL
  /\ workflow_jobs[j].scheduled_at <= now
  /\ workflow_jobs[j].workflow_id \notin workflowLock
  /\ body \in Responses(workflow_jobs[j].workflow_id)
  /\ workflow_executions' =
       [workflow_executions EXCEPT
          ![workflow_jobs[j].workflow_execution_id] =
             SideEffect(@, body, now)]
  /\ workflow_jobs' =
       [workflow_jobs EXCEPT
          ![j].execution_id = j,
          ![j].response_body = IF body = NoResponse THEN Absent ELSE body,
          ![j].response_error = IF body = NoResponse THEN body ELSE Absent]
  /\ UNCHANGED <<workflows, workflow_dependencies, workflowLock, driver,
                 brokerVars, exceptWorkflow>>

WorkflowNext ==
  \/ WorkflowTick
  \/ \E s \in Drivers : WorkflowSelectStart(s)
  \/ \E s \in Drivers, w \in WorkflowIds : WorkflowLockRow(s, w)
  \/ \E s \in Drivers : WorkflowReachedEnd(s)
  \/ \E s \in Drivers : NoExecutionRun(s)
  \/ \E s \in Drivers : PendingExecutionRun(s)
  \/ \E s \in Drivers : WaitedExecutionRun(s)
  \/ \E s \in Drivers : WorkflowRowNotFound(s)
  \/ \E j \in 1..Len(workflow_jobs), body \in Bodies \cup {NoResponse} :
       WorkflowRecord(j, body)

WorkflowSpec == WorkflowInit /\ [][WorkflowNext]_vars

\* The scheduling loops run for ever, the recorder answers every drone, and
\* the clock advances.
WorkflowFairSpec ==
  /\ WorkflowSpec
  /\ WF_vars(WorkflowTick)
  /\ \A s \in Drivers :
       /\ WF_vars(WorkflowSelectStart(s))
       /\ WF_vars(\E w \in WorkflowIds : WorkflowLockRow(s, w))
       /\ WF_vars(WorkflowReachedEnd(s))
       /\ WF_vars(NoExecutionRun(s))
       /\ WF_vars(PendingExecutionRun(s))
       /\ WF_vars(WaitedExecutionRun(s))
  /\ WF_vars(\E j \in 1..Len(workflow_jobs), body \in Bodies \cup {NoResponse} :
               WorkflowRecord(j, body))

----------------------------------------------------------------------------
\* The WaitedExecution scheduler over a workflow whose waiting execution
\* follows a number of failed executions: wait_factor over its inputs.

MaxBackoffRetries == 3

\* r failed executions, every one after the first a retry, and execution #r
\* waiting; it is a retry when r > 0.
BackoffExecutions(r) ==
  [k \in 1..(r + 1) |->
     IF k <= r
     THEN [ExecutionRow(1, k - 1, k > 1) EXCEPT
             !.status = "failed", !.executed_at = 0,
             !.failure_reason = NoResponse]
     ELSE [ExecutionRow(1, r, r > 0) EXCEPT !.status = "waiting"]]

BackoffInit ==
  /\ \E r \in 0..MaxBackoffRetries :
       workflow_executions = BackoffExecutions(r)
  /\ workflows = <<WorkflowRow("leaf", MaxBackoffRetries)>>
  /\ workflow_dependencies = <<>>
  /\ NoWorkflowRows
  /\ NoBroker
  /\ NoUpdate
  /\ NoOneOff
  /\ NoRetry
  /\ NoCron
  /\ NoStore

BackoffNext ==
  \/ WorkflowTick
  \/ \E s \in WaitedSchedulers : WorkflowSelectStart(s)
  \/ \E s \in WaitedSchedulers, w \in WorkflowIds : WorkflowLockRow(s, w)
  \/ \E s \in WaitedSchedulers : WorkflowReachedEnd(s)
  \/ \E s \in WaitedSchedulers : WaitedExecutionRun(s)
  \/ \E s \in WaitedSchedulers : WorkflowRowNotFound(s)
  \/ \E j \in 1..Len(workflow_jobs), body \in Bodies \cup {NoResponse} :
       WorkflowRecord(j, body)

BackoffSpec == BackoffInit /\ [][BackoffNext]_vars

----------------------------------------------------------------------------
\* The drone's local store: DroneStore over the tables executions and
\* execution_responses.  Every statement and every transaction of the store
\* is atomic: SQLite admits one writer at a time.

exceptStore == <<oneOffVars, retryVars, cronVars, workflowVars, removed>>

StoreJobIds == 1..NumStoreJobs
SyncNonces == {1, 2}
ExecutedAts == {100, 200}

\* A row of executions as insert_execution binds it.
StoreRow(job_id, executed_at, response_id) ==
  [job_id |-> job_id, executed_at |-> executed_at,
   response_id |-> response_id, replicated_times |-> 0,
   sync_status |-> "local", sync_time |-> NULL, sync_nonce |-> NULL]

\* SET sync_status = 'local', sync_time = NULL, sync_nonce = NULL
ToLocal(r) ==
  [r EXCEPT !.sync_status = "local", !.sync_time = NULL, !.sync_nonce = NULL]

\* id::generate("execution_response"): an id that no response has
NewResponseId ==
  CHOOSE i \in 1..(NumStoreJobs + 1) : i \notin store_responses

StoreInit ==
  /\ NoStore
  /\ NoBroker
  /\ NoUpdate
  /\ NoOneOff
  /\ NoRetry
  /\ NoCron
  /\ NoWorkflow

Called(op, nonce, returned) ==
  store_call' = [op |-> op, nonce |-> nonce, returned |-> returned]

StoreTick ==
  /\ \E d \in StoreTickSteps : now + d <= MaxStoreNow /\ now' = now + d
  /\ Called("tick", NULL, NULL)
  /\ UNCHANGED <<store_executions, store_responses, brokerRest, exceptStore>>

\* insert_execution of an execution whose job_id the table does not hold.
InsertExecution(job_id, executed_at, response) ==
  /\ \A r \in store_executions : r.job_id # job_id
  /\ LET response_id == IF response THEN NewResponseId ELSE NULL
     IN /\ store_responses' =
             IF response THEN store_responses \cup {response_id}
             ELSE store_responses
        /\ store_executions' = store_executions
             \cup {StoreRow(job_id, executed_at, response_id)}
  /\ Called("insert_execution", NULL, NULL)
  /\ UNCHANGED <<brokerVars, exceptStore>>

\* WHERE sync_status = 'local' ORDER BY executed_at DESC LIMIT 1
NewestLocal(E) ==
  {r \in E : /\ r.sync_status = "local"
             /\ \A k \in E : k.sync_status = "local" =>
                  k.executed_at <= r.executed_at}

\* WHERE sync_status = 'local' ORDER BY executed_at ASC LIMIT 1: the rows
\* that the subquery can return.
OldestLocal(E) ==
  {r \in E : /\ r.sync_status = "local"
             /\ \A k \in E : k.sync_status = "local" =>
                  r.executed_at <= k.executed_at}

\* get_job_to_sync
GetJobToSync(sync_nonce) ==
  /\ IF OldestLocal(store_executions) = {}
     THEN /\ UNCHANGED store_executions
          /\ Called("get_job_to_sync", sync_nonce, NULL)
     ELSE \E r \in OldestLocal(store_executions) :
            /\ store_executions' = (store_executions \ {r}) \cup
                 {[r EXCEPT !.sync_status = "pending",
                            !.sync_nonce = sync_nonce,
                            !.sync_time = now]}
            /\ Called("get_job_to_sync", sync_nonce, r.job_id)
  /\ UNCHANGED <<store_responses, brokerVars, exceptStore>>

\* record_replication: UPDATE executions SET replicated_times =
\* replicated_times + 1 WHERE job_id = $1
RecordReplication(job_id) ==
  /\ \A r \in store_executions :
       r.job_id = job_id => r.replicated_times < MaxReplications
  /\ store_executions' =
       {IF r.job_id = job_id
        THEN [r EXCEPT !.replicated_times = @ + 1] ELSE r :
          r \in store_executions}
  /\ Called("record_replication", NULL, NULL)
  /\ UNCHANGED <<store_responses, brokerVars, exceptStore>>

\* mark_successfully_synced that leaves sync_time and sync_nonce as they are
MarkSuccessfullySyncedKeepsTime(r) ==
  /\ r \in store_executions
  /\ r.sync_status = "pending"
  /\ store_executions' = (store_executions \ {r}) \cup
       {[r EXCEPT !.sync_status = "synced"]}
  /\ Called("mark_successfully_synced", NULL, NULL)
  /\ UNCHANGED <<store_responses, brokerVars, exceptStore>>

\* mark_successfully_synced, called when the upload of an execution that
\* was handed out completes.
MarkSuccessfullySynced(r) ==
  /\ r \in store_executions
  /\ r.sync_status = "pending"
  /\ store_executions' = (store_executions \ {r}) \cup
       {[r EXCEPT !.sync_status = "synced", !.sync_time = NULL,
                  !.sync_nonce = NULL]}
  /\ Called("mark_successfully_synced", NULL, NULL)
  /\ UNCHANGED <<store_responses, brokerVars, exceptStore>>

\* cleanup_executions_post_sync
CleanupExecutionsPostSync(sync_nonce) ==
  /\ store_executions' =
       {IF r.sync_nonce = sync_nonce THEN ToLocal(r) ELSE r :
          r \in store_executions}
  /\ Called("cleanup_executions_post_sync", sync_nonce, NULL)
  /\ UNCHANGED <<store_responses, brokerVars, exceptStore>>

\* WHERE sync_time < $1 with every sync_time that is set
StaleAlways(r, t) == r.sync_time # NULL

\* WHERE sync_time < $1 with cleanup_before two hours back
StaleAfterTwoHours(r, t) ==
  r.sync_time # NULL /\ r.sync_time < t - 2 * SecsPerHour

\* WHERE sync_time < $1, cleanup_before = now - 1 hour
Stale(r, t) == r.sync_time # NULL /\ r.sync_time < t - SecsPerHour

\* cleanup_executions: the UPDATE and the two DELETEs
CleanupExecutions ==
  LET updated == {IF Stale(r, now) THEN ToLocal(r) ELSE r :
                    r \in store_executions}
      kept == {r \in updated : r.sync_status # "synced"}
  IN /\ store_executions' = kept
     /\ store_responses' =
          {i \in store_responses : \E r \in kept : r.response_id = i}
     /\ Called("cleanup_executions", NULL, NULL)
     /\ UNCHANGED <<brokerVars, exceptStore>>

StoreNext ==
  \/ StoreTick
  \/ \E j \in StoreJobIds, at \in ExecutedAts, response \in BOOLEAN :
       InsertExecution(j, at, response)
  \/ \E n \in SyncNonces : GetJobToSync(n)
  \/ \E r \in store_executions : MarkSuccessfullySynced(r)
  \/ \E n \in SyncNonces : CleanupExecutionsPostSync(n)
  \/ CleanupExecutions

StoreSpec == StoreInit /\ [][StoreNext]_vars

\* The store with the replication of executions to the drone's peers.
ReplicaNext ==
  \/ StoreNext
  \/ \E j \in StoreJobIds : RecordReplication(j)

ReplicaSpec == StoreInit /\ [][ReplicaNext]_vars

\* The store while no upload completes: executions without a response are
\* inserted and handed out, and the cleanup runs.
StuckNext ==
  \/ StoreTick
  \/ \E j \in StoreJobIds, at \in ExecutedAts :
       InsertExecution(j, at, FALSE)
  \/ \E n \in SyncNonces : GetJobToSync(n)
  \/ CleanupExecutions

\* The clock advances, and the sync loop and the cleanup loop of the drone
\* keep running.
StuckSpec ==
  /\ StoreInit
  /\ [][StuckNext]_vars
  /\ WF_vars(StoreTick)
  /\ WF_vars(\E n \in SyncNonces : GetJobToSync(n))
  /\ WF_vars(CleanupExecutions)

----------------------------------------------------------------------------
\* Properties

\* C1: no row of scheduled_jobs ever has lock_nonce and execution_id both
\* set: a row is queued, leased or completed.
C1_NeverLeasedAndRecorded ==
  \A j \in JobIds :
    ~(jobs[j].lock_nonce # NULL /\ jobs[j].execution_id # NULL)

\* C2: after every committed dispatch, refill, reaper and recorder
\* transaction, in any interleaving, 0 <= tokens <= max_tokens for every
\* tenant.
C2_TokensInRange ==
  \A t \in TenantIds :
    0 <= tenants[t].tokens /\ tenants[t].tokens <= tenants[t].max_tokens

\* A tenant that was debited by a lease, refilled, and refunded by the reaper
\* up to its cap.
C2_DebitedRefilledRefunded ==
  \E t \in TenantIds, j \in JobIds :
    /\ jobs[j].tenant_id = t
    /\ jobs[j].times_locked > 0
    /\ Queued(j)
    /\ tenants[t].next_increment > now
    /\ tenants[t].tokens = tenants[t].max_tokens

\* Caller c runs with no other transaction in progress and nothing committed
\* since its statement started.
C3_Alone(c) ==
  /\ \A d \in Callers \ {c} : call[d].pc = "idle"
  /\ \A j \in JobIds : jobLock[j] = Free
  /\ \A t \in TenantIds : tenantLock[t] = Free
  /\ call[c].queued = {j \in JobIds : Queued(j)}
  /\ call[c].active = {t \in TenantIds : tenants[t].tokens > 0}

C3_Step ==
  \A c \in Callers :
    /\ (call[c].pc = "locked" /\ call'[c].pc = "idle") =>
         \A t \in TenantIds :
           LET L == {j \in JobIds :
                       /\ jobs[j].tenant_id = t
                       /\ jobs'[j].times_locked > jobs[j].times_locked}
           IN /\ Cardinality(L) <= tenants[t].tokens
              /\ tenants'[t].tokens = tenants[t].tokens - Cardinality(L)
              /\ (tenants[t].tokens = 0 => L = {})
    /\ (call[c].pc = "started" /\ call'[c].pc = "locked" /\ C3_Alone(c)) =>
         \A t \in TenantIds :
           LET due == {j \in JobIds :
                         /\ jobs[j].tenant_id = t
                         /\ Queued(j)
                         /\ Admissible(j, CallerRegion[c], now)}
               got == {j \in JobIds :
                         jobs[j].tenant_id = t /\ jobLock'[j] = c}
           IN Cardinality(got) = Min(tenants[t].tokens, Cardinality(due))

\* C3: one GetJobs call leases at most `tokens` rows of a tenant, lowers the
\* tenant's tokens by exactly the number of its rows the call leased, and
\* leases no row of a tenant with 0 tokens; a call that runs alone takes
\* exactly min(tokens, due rows) rows (2 of 5 with tokens = 2, none with
\* tokens = 0).
C3_LeaseWithinTokens == [][C3_Step]_vars

\* tokens = 2 and 5 due jobs: the first two in dispatch order are leased, the
\* other three are queued, tokens = 0 and no refill has run.
C3_TwoOfFiveLeased ==
  /\ NumDispatchJobs >= 5
  /\ \A j \in JobIds : j <= 2 <=> Leased(j)
  /\ \A j \in JobIds : j > 2 <=> Queued(j)
  /\ \A j \in JobIds : jobs[j].times_locked <= 1
  /\ tenants[1].tokens = 0
  /\ tenants[1].max_tokens >= 2
  /\ tenants[1].next_increment < now

\* C4: under any interleaving of concurrent GetJobs calls a row is leased
\* only while it is queued: once leased it is handed to no other caller
\* unless the reaper reset its lock_nonce in between.
C4_LeasedOnlyWhenQueued ==
  [][\A j \in JobIds :
       jobs'[j].times_locked > jobs[j].times_locked => Queued(j)]_vars

\* C5: delivering the frame of one (job_id, lock_nonce) any number of times
\* records exactly one execution: a job has no more executions than
\* distinct frames.
C5_OneExecutionPerFrame ==
  \A j \in JobIds :
    Len(executions[j]) <= Cardinality({f \in frames : f[1] = j})

C6_ReapStep ==
  \A p \in Reapers :
    (/\ reaper[p].pc = "running"
     /\ reaper'[p].pc = "idle"
     /\ \A j \in reaper[p].cands : Leased(j)) =>
      /\ \A j \in reaper[p].cands :
           /\ jobs'[j].lock_nonce = NULL
           /\ jobs'[j].execution_id = NULL
           /\ \A c \in Callers : Admissible(j, CallerRegion[c], now)
      /\ \A t \in TenantIds :
           tenants'[t].tokens =
             Min(tenants[t].max_tokens,
                 tenants[t].tokens
                   + Cardinality({j \in reaper[p].cands :
                                    jobs[j].tenant_id = t}))

\* C6: once now exceeds lock_nonce + timeout + 90 s for a leased row with no
\* execution recorded, its lock_nonce is eventually cleared; the reaper that
\* clears leases leaves the rows queued and admissible to every caller, and
\* raises each tenant's tokens by the number of its reaped rows, capped at
\* max_tokens.
C6_ExpiredLeaseReaped ==
  /\ \A j \in JobIds0 :
       (LeaseExpired(jobs[j], tenants, now) /\ CanTick)
         ~> (jobs[j].lock_nonce = NULL)
  /\ [][C6_ReapStep]_vars

\* A lease of tenant 1 was reaped and refunded: the row is queued again, the
\* tenant has its token back and no refill has run.
C6_ReapedAndRefunded ==
  \E j \in JobIds :
    /\ jobs[j].tenant_id = 1
    /\ jobs[j].times_locked = 1
    /\ Queued(j)
    /\ executions[j] = <<>>
    /\ tenants[1].tokens = 1
    /\ tenants[1].next_increment < now

\* The drones report the leases of row j: a lease that can be reported again
\* and again is reported.
C7_Reported(j) ==
  SF_vars(\E r \in Recorders, f \in frames : f[1] = j /\ RecordLock(r, f))

\* C7: drones keep calling GetJobs and tokens are refilled; then every
\* scheduled row whose leases are reported is eventually completed, and a
\* lease that no drone reports does not last: once expired it ends.
C7_AtLeastOnce ==
  \A j \in JobIds0 :
    /\ C7_Reported(j) => <>(jobs[j].execution_id # NULL)
    /\ [](Leased(j) /\ LeaseExpired(jobs[j], tenants, now) /\ CanTick
           => <>(~Leased(j)))

\* A row whose first lease was not reported was leased again and completed.
C7_CompletedAfterStall ==
  \E j \in JobIds :
    /\ Completed(j)
    /\ jobs[j].times_locked = 2
    /\ Len(executions[j]) = 1
    /\ jobs[j].tenant_id # NoTenant

\* C8: the reaper statement run twice with nothing in between leaves the
\* store as one run does: the second run finds no candidate, resets no row
\* and refunds no token; at a later time it resets none of the rows the
\* first run reset.
C8_ReaperIdempotent ==
  \A t1, t2 \in {now} \cup {reaper[p].txnow : p \in Reapers} :
    t1 <= t2 =>
      LET C1 == CleanupCandidates(jobs, tenants, t1)
          J1 == ReapedJobs(jobs, C1)
          T1 == ReapedTenants(jobs, tenants, C1)
          C2 == CleanupCandidates(J1, T1, t2)
      IN /\ C2 \cap C1 = {}
         /\ t1 = t2 => /\ C2 = {}
                       /\ ReapedJobs(J1, C2) = J1
                       /\ ReapedTenants(J1, T1, C2) = T1

\* The reaper has an expired lease of a tenant below its cap to reset.
C8_LeaseToReap ==
  \E j \in CleanupCandidates(jobs, tenants, now) :
    /\ jobs[j].tenant_id # NoTenant
    /\ tenants[jobs[j].tenant_id].tokens < tenants[jobs[j].tenant_id].max_tokens

\* C9: any number of runs of the one-off materializer, by any number of
\* concurrent instances, leaves at most one scheduled_jobs row for a one-off
\* job, none for a deleted one, and scheduled_at = execute_at.
C9_OneRowPerOneOff ==
  /\ \A o \in OneOffIds :
       Cardinality({i \in 1..Len(materialized) :
                      materialized[i].one_off_job_id = o}) <= 1
  /\ \A i \in 1..Len(materialized) :
       LET o == materialized[i].one_off_job_id
       IN /\ ~one_off_jobs[o].deleted
          /\ Timestamp(materialized[i].scheduled_at) = one_off_jobs[o].execute_at

\* The attempts made before row i in its retry chain.
RECURSIVE C10_PriorAttempts(_)
C10_PriorAttempts(i) ==
  IF retry_rows[i].retry_for_id = NULL THEN 0
  ELSE 1 + C10_PriorAttempts(retry_rows[i].retry_for_id)

\* C10: the successor of a failed row is scheduled at the executed_at of the
\* failed attempt + 60 s * 2^attempts_made, attempts_made being 0 for the
\* first retry of a chain.
C10_BackoffDoubles ==
  \A k \in RetryIds :
    retry_rows[k].retry_for_id # NULL =>
      LET failed == retry_rows[k].retry_for_id
      IN retry_rows[k].scheduled_at =
           retry_rows[failed].executed_at
             + (BaseDelayMs \div MsPerSec) * 2^C10_PriorAttempts(failed)


\* C11: every retry successor carries its predecessor's max_retries - 1, a
\* row with max_retries = 0 has no successor, and the chain that starts from
\* a row with max_retries = n holds at most n + 1 scheduled rows.
C11_ChainBounded ==
  /\ \A k \in RetryIds :
       retry_rows[k].retry_for_id # NULL =>
         /\ retry_rows[k].max_retries =
              retry_rows[retry_rows[k].retry_for_id].max_retries - 1
         /\ retry_rows[retry_rows[k].retry_for_id].max_retries > 0
  /\ Len(retry_rows) <= retry_rows[1].max_retries + 1

\* C12: when the cron expander has run to idle (its SELECT finds no cron
\* job), every cron job has at most 60 unexecuted scheduled rows and no row
\* later than now + 15 minutes; and one expansion of an every-minute schedule
\* inserts between 15 and 60 rows, none later than now + 900 s.
C12_Step ==
  /\ \A s \in CronSchedulers :
       CronReachedEnd(s) =>
         \A c \in CronIds :
           /\ Cardinality(Unexecuted(c)) <= 60
           /\ \A i \in CronRowIds : cron_rows[i].scheduled_at <= now + 900
  /\ \A s \in CronSchedulers :
       (CronExpand(s) /\ cron_jobs[cron[s].job].schedule = "* * * * *") =>
         /\ Len(cron_rows') - Len(cron_rows) >= 15
         /\ Len(cron_rows') - Len(cron_rows) <= 60
         /\ \A i \in 1..Len(cron_rows') :
              cron_rows'[i].scheduled_at <= now + 900

C12_CronBacklogAndHorizon == [][C12_Step]_vars

\* The leases of the rows of tenant t: the sum of times_locked.
RECURSIVE C13_Sum(_)
C13_Sum(S) ==
  IF S = {} THEN 0
  ELSE LET j == CHOOSE k \in S : TRUE
       IN jobs[j].times_locked + C13_Sum(S \ {j})

C13_Leases(t) == C13_Sum({j \in JobIds : jobs[j].tenant_id = t})

\* The rows of tenant t that were leased and not returned to the queue by
\* the reaper: they are leased or completed.
C13_Kept(t) ==
  Cardinality({j \in JobIds : jobs[j].tenant_id = t /\ ~Queued(j)})

\* C13 as stated: in one hour the rows of a tenant that go from queued to
\* leased number at most increment * (3600 / period) + the tokens held at
\* the start of the hour.
C13_RateAsStated ==
  \A t \in TenantIds :
    C13_Leases(t) <=
      tenants[t].increment * (3600 \div tenants[t].period) + RateInitTokens

\* C13 with the leases that the reaper reset left out, and with the refills
\* that fit into one hour when a refill up to 5 minutes late keeps its
\* schedule: the rows of a tenant that are leased and not reset number at
\* most the tokens held at the start + increment * (3900 / period + 1).
\* The reaper refunds a token also for a lease that was recorded after the
\* reaper's snapshot, so this reading fails as well.
C13_RateOfKeptLeases ==
  \A t \in TenantIds :
    C13_Kept(t) <=
      RateInitTokens + tenants[t].increment * (3900 \div tenants[t].period + 1)

\* C14: within one GetJobs call, of two admissible queued rows A and B of
\* one tenant with A.scheduled_at < B.scheduled_at, B is leased only if A is
\* leased too, unless another transaction held the row lock of A.
C14_Step ==
  \A c \in Callers :
    GetJobsLock(c) =>
      \A A \in call[c].queued, B \in call[c].queued :
        ( /\ jobs[A].tenant_id # NoTenant
          /\ jobs[A].tenant_id = jobs[B].tenant_id
          /\ Admissible(A, CallerRegion[c], now)
          /\ Admissible(B, CallerRegion[c], now)
          /\ jobs[A].scheduled_at < jobs[B].scheduled_at
          /\ jobLock'[B] = c )
        => (jobLock'[A] = c \/ jobLock[A] # Free)

C14_DispatchMonotone == [][C14_Step]_vars

\* A call takes the second row of the tenant after the first was leased,
\* and leaves the third.
C14_NextInOrder ==
  \E c \in Callers :
    /\ call[c].pc = "locked"
    /\ jobs[1].lock_nonce # NULL
    /\ jobLock[2] = c
    /\ jobLock[3] = Free
    /\ jobs[3].lock_nonce = NULL

\* C15: completed is absorbing: once execution_id of a row is set, no step
\* clears or replaces it, and the row is not leased again.
C15_Step ==
  \A j \in JobIds :
    jobs[j].execution_id # NULL =>
      /\ jobs'[j].execution_id = jobs[j].execution_id
      /\ jobs'[j].lock_nonce = NULL
      /\ jobs'[j].times_locked = jobs[j].times_locked

C15_CompletedAbsorbing == [][C15_Step]_vars


\* C16: every workflow execution with status 'completed' has result_json
\* set and failure_reason null, after any recorder side effect and any run
\* of a workflow scheduler.
C16_CompletedHasResult ==
  \A e \in 1..Len(workflow_executions) :
    workflow_executions[e].status = "completed" =>
      /\ workflow_executions[e].result_json # Absent
      /\ workflow_executions[e].failure_reason = Absent

\* The recorder has recorded the response of a workflow execution and the
\* execution is 'completed'.
C16_RecordedCompleted ==
  \E j \in 1..Len(workflow_jobs) :
    /\ workflow_jobs[j].execution_id # NULL
    /\ workflow_executions[workflow_jobs[j].workflow_execution_id].status
         = "completed"

\* C17: a workflow whose implementation first declares two children and
\* returns a result once both are finalized runs to completion: from the
\* workflow without executions, execution #0 is created, the children are
\* materialized, a later execution is dispatched with both child results,
\* and the workflow eventually becomes 'completed'.
C17_RunsToCompletion ==
  (/\ Len(workflows) >= 1
   /\ workflows[1].implementation_url = "parent"
   /\ ExecutionsOf(1) = {})
    ~> (workflows[1].status = "completed")


\* C18: get_job_to_sync(nonce) picks the execution with the smallest
\* executed_at among those with sync_status 'local', sets it to 'pending'
\* with sync_nonce = nonce and returns it; a 'pending' or 'synced'
\* execution is never returned, and when no execution is 'local' it returns
\* None and changes nothing.
C18_Step ==
  store_call'.op = "get_job_to_sync" =>
    LET Local == {r \in store_executions : r.sync_status = "local"}
    IN IF Local = {}
       THEN /\ store_call'.returned = NULL
            /\ store_executions' = store_executions
            /\ store_responses' = store_responses
       ELSE \E r \in Local :
              /\ \A k \in Local : r.executed_at <= k.executed_at
              /\ store_call'.returned = r.job_id
              /\ \E h \in store_executions' :
                   /\ h.job_id = r.job_id
                   /\ h.sync_status = "pending"
                   /\ h.sync_nonce = store_call'.nonce
                   /\ store_executions' \ {h} = store_executions \ {r}
              /\ store_responses' = store_responses

C18_GetJobToSync == [][C18_Step]_vars

\* get_job_to_sync has handed out the older of two executions and the
\* younger one is still 'local'.
C18_OldestHandedOut ==
  /\ store_call.op = "get_job_to_sync"
  /\ \E r, k \in store_executions :
       /\ store_call.returned = r.job_id
       /\ r.sync_status = "pending"
       /\ r.sync_nonce = store_call.nonce
       /\ k.sync_status = "local"
       /\ r.executed_at < k.executed_at

\* C19: cleanup_executions returns to 'local', with sync_time and
\* sync_nonce cleared, every execution whose sync_time is more than one
\* hour old, deletes every 'synced' execution and every response that no
\* remaining execution references, and leaves the recently handed out
\* executions and the referenced responses unchanged.
C19_Step ==
  store_call'.op = "cleanup_executions" =>
    LET Old(r) == r.sync_time # NULL /\ now - r.sync_time > SecsPerHour
    IN /\ \A r \in store_executions :
            IF Old(r) THEN ToLocal(r) \in store_executions'
            ELSE IF r.sync_status = "synced"
            THEN \A h \in store_executions' : h.job_id # r.job_id
            ELSE r \in store_executions'
       /\ \A h \in store_executions' :
            \E r \in store_executions : h.job_id = r.job_id
       /\ \A i \in store_responses :
            i \in store_responses' <=>
              \E h \in store_executions' : h.response_id = i
       /\ store_responses' \subseteq store_responses

C19_CleanupExecutions == [][C19_Step]_vars

\* After a cleanup an execution is 'local' while a younger one, handed out
\* within the last hour, is still 'pending', and a response is kept.
C19_StuckReturnedRecentKept ==
  /\ store_call.op = "cleanup_executions"
  /\ now > SecsPerHour
  /\ \E r, k \in store_executions :
       /\ r.sync_status = "local"
       /\ k.sync_status = "pending"
       /\ now - k.sync_time <= SecsPerHour
       /\ r.executed_at < k.executed_at
       /\ k.response_id \in store_responses

C21_Step ==
  \A c \in FairCallers :
    (call[c].pc = "locked" /\ call'[c].pc = "idle") =>
      \A t \in DOMAIN tenants :
        tenants[t].tokens > 0 =>
          Cardinality({j \in DOMAIN jobs :
                         /\ jobs[j].tenant_id = t
                         /\ Queued(j)
                         /\ jobs'[j].lock_nonce # NULL})
            = Min(tenants[t].tokens,
                  Cardinality({j \in DOMAIN jobs :
                                 /\ jobs[j].tenant_id = t
                                 /\ Queued(j)
                                 /\ Admissible(j, CallerRegion[c], now)}))

C21_TenantGetsItsShare == [][C21_Step]_vars

\* C22: a run of the NoExecution scheduler on a workflow that has no
\* executions leaves, committed, the execution with execution_index 0, status
\* 'pending' and is_retry = FALSE, and the workflow then qualifies for the
\* PendingExecution scheduler.
C22_Step ==
  \A s \in NoExecutionSchedulers :
    (/\ driver[s].pc = "running"
     /\ driver'[s].pc = "idle"
     /\ ExecutionsOf(driver[s].job) = {}) =>
      /\ \E e \in 1..Len(workflow_executions') :
           workflow_executions'[e] = ExecutionRow(driver[s].job, 0, FALSE)
      /\ PendingSelectable(driver[s].job)'

C22_FirstExecutionCreated == [][C22_Step]_vars

\* C23: a run of the NoExecution scheduler on a pending workflow whose latest
\* execution is terminal commits its decision: the workflow becomes
\* 'completed' exactly when the latest execution returned a result; when it
\* returned an error the workflow becomes 'failed' if the retries are used up
\* and else gets a new execution with is_retry = TRUE; when it returned
\* neither, an execution with the next index is created.
C23_Step ==
  \A s \in NoExecutionSchedulers :
    (/\ driver[s].pc = "running"
     /\ driver'[s].pc = "idle"
     /\ ExecutionsOf(driver[s].job) # {}
     /\ workflows[driver[s].job].status = "pending") =>
      LET w == driver[s].job
          latest == workflow_executions[LatestExecution(w)]
          result == /\ latest.status = "completed"
                    /\ ReturnedData(latest.result_json).result
          error == latest.failure_reason # Absent
          Created(is_retry) ==
            \E e \in 1..Len(workflow_executions') :
              /\ e > Len(workflow_executions)
              /\ workflow_executions'[e].workflow_id = w
              /\ workflow_executions'[e].execution_index
                   = latest.execution_index + 1
              /\ workflow_executions'[e].status = "pending"
              /\ is_retry => workflow_executions'[e].is_retry
      IN /\ workflows'[w].status = "completed" <=> result
         /\ (error /\ RetryCount(w) = workflows[w].max_retries) =>
              workflows'[w].status = "failed"
         /\ (error /\ RetryCount(w) # workflows[w].max_retries) =>
              Created(TRUE)
         /\ (~result /\ ~error) => Created(FALSE)

C23_DecisionCommitted == [][C23_Step]_vars

\* C24: the PendingExecution scheduler acts only on a workflow whose single
\* non-terminal execution is 'pending'; its one transaction inserts exactly
\* one dependency, and for a child exactly one new 'pending' workflow, for
\* every declared child or wait name without a dependency, and moves the
\* execution from 'pending' to 'waiting'; at no time do two dependencies of
\* one workflow carry the same child name or the same wait name.
C24_NoNameTwice ==
  \A w \in WorkflowIds :
    \A d, k \in DependenciesOf(w) :
      d # k =>
        /\ workflow_dependencies[d].child_workflow_name # Absent =>
             workflow_dependencies[d].child_workflow_name
               # workflow_dependencies[k].child_workflow_name
        /\ workflow_dependencies[d].wait_name # Absent =>
             workflow_dependencies[d].wait_name
               # workflow_dependencies[k].wait_name

C24_Step ==
  \A s \in PendingSchedulers :
    (driver[s].pc = "running" /\ driver'[s].pc = "idle") =>
      LET w == driver[s].job
          New == (Len(workflow_dependencies) + 1)..Len(workflow_dependencies')
          Born == (Len(workflows) + 1)..Len(workflows')
      IN \E e \in ExecutionsOf(w) :
           /\ workflow_executions[e].status = "pending"
           /\ \A k \in ExecutionsOf(w) \ {e} : Terminal(k)
           /\ workflow_executions' =
                [workflow_executions EXCEPT ![e].status = "waiting"]
           /\ SubSeq(workflow_dependencies', 1, Len(workflow_dependencies))
                = workflow_dependencies
           /\ SubSeq(workflows', 1, Len(workflows)) = workflows
           /\ Cardinality(New)
                = Cardinality(NewChildren(w)) + Cardinality(NewWaits(w))
           /\ Cardinality(Born) = Cardinality(NewChildren(w))
           /\ \A d \in New : workflow_dependencies'[d].workflow_execution_id = e
           /\ \A name \in NewChildren(w) :
                \E d \in New :
                  /\ workflow_dependencies'[d].child_workflow_name = name
                  /\ workflow_dependencies'[d].child_workflow_id \in Born
                  /\ workflows'[workflow_dependencies'[d].child_workflow_id]
                       .status = "pending"
                  /\ \A k \in New \ {d} :
                       /\ workflow_dependencies'[k].child_workflow_name # name
                       /\ workflow_dependencies'[k].child_workflow_id
                            # workflow_dependencies'[d].child_workflow_id
           /\ \A name \in NewWaits(w) :
                \E d \in New :
                  /\ workflow_dependencies'[d].wait_name = name
                  /\ \A k \in New \ {d} :
                       workflow_dependencies'[k].wait_name # name

C24_MaterializedOnce == [](C24_NoNameTwice) /\ [][C24_Step]_vars

\* Witness of C24: the pending execution of a workflow with two declared
\* children became 'waiting' with one dependency and one child workflow per
\* name, while a second instance of the scheduler had selected the workflow
\* from its earlier snapshot.
C24_ChildrenMaterialized ==
  /\ Len(workflows) = 3
  /\ Len(workflow_dependencies) = 2
  /\ {workflow_dependencies[d].child_workflow_name : d \in DependenciesOf(1)}
       = ChildNames
  /\ workflow_executions[2].status = "waiting"
  /\ \E s \in PendingSchedulers : 1 \in driver[s].snapshot

\* C25: the WaitedExecution scheduler moves an execution from 'waiting' to
\* 'scheduled' only when no wait of the workflow is still ahead and every
\* child workflow is 'completed' or 'failed'; the same transaction inserts
\* exactly one row of scheduled_jobs, which references that execution; and at
\* no time does a workflow execution have more than one row of scheduled_jobs.
C25_OneJobPerExecution ==
  \A j, k \in 1..Len(workflow_jobs) :
    j # k =>
      workflow_jobs[j].workflow_execution_id
        # workflow_jobs[k].workflow_execution_id

C25_Step ==
  \A e \in 1..Len(workflow_executions) :
    (/\ workflow_executions[e].status = "waiting"
     /\ workflow_executions'[e].status = "scheduled") =>
      LET w == workflow_executions[e].workflow_id
      IN /\ \A d \in DependenciesOf(w) :
              /\ workflow_dependencies[d].wait_until # NULL =>
                   workflow_dependencies[d].wait_until <= now
              /\ workflow_dependencies[d].child_workflow_id # NULL =>
                   workflows[workflow_dependencies[d].child_workflow_id].status
                     \in {"completed", "failed"}
         /\ Len(workflow_jobs') = Len(workflow_jobs) + 1
         /\ SubSeq(workflow_jobs', 1, Len(workflow_jobs)) = workflow_jobs
         /\ workflow_jobs'[Len(workflow_jobs')].workflow_execution_id = e
         /\ workflow_jobs'[Len(workflow_jobs')].workflow_id = w
         /\ \A k \in 1..Len(workflow_executions) \ {e} :
              workflow_executions'[k] = workflow_executions[k]

C25_ScheduledWhenUnblocked ==
  [](C25_OneJobPerExecution) /\ [][C25_Step]_vars

\* Witness of C25: an execution of a workflow with an elapsed wait is
\* 'scheduled' and has its row of scheduled_jobs, and a second instance of
\* the scheduler, which had selected the workflow too, found no 'waiting'
\* execution.
C25_ScheduledAfterWait ==
  \E j \in 1..Len(workflow_jobs) :
    /\ workflow_executions[workflow_jobs[j].workflow_execution_id].status
         = "scheduled"
    /\ \E d \in DependenciesOf(workflow_jobs[j].workflow_id) :
         workflow_dependencies[d].wait_until = WaitUntilSecs
    /\ \E s \in WaitedSchedulers : driver[s].pc = "stopped"

\* C26: when the recorder records a row of scheduled_jobs that belongs to a
\* workflow execution, the execution ends 'failed' with the parse reason if
\* the body is not JSON, 'failed' with the JSON kept if the JSON has not the
\* expected shape, 'failed' with the returned error and the JSON kept if it
\* carries an error field, and 'completed' with the JSON as result_json
\* otherwise; and the execution is terminal exactly when its row of
\* scheduled_jobs carries the execution record.
C26_Together ==
  \A j \in 1..Len(workflow_jobs) :
    (workflow_jobs[j].execution_id # NULL)
      <=> Terminal(workflow_jobs[j].workflow_execution_id)

C26_Step ==
  \A j \in 1..Len(workflow_jobs) :
    (/\ workflow_jobs[j].execution_id = NULL
     /\ workflow_jobs'[j].execution_id # NULL
     /\ workflow_jobs'[j].response_body # Absent) =>
      LET body == workflow_jobs'[j].response_body
          execution ==
            workflow_executions'[workflow_jobs[j].workflow_execution_id]
      IN /\ workflow_executions[workflow_jobs[j].workflow_execution_id].status
              = "scheduled"
         /\ execution.executed_at = now
         /\ IF body = "not json"
            THEN /\ execution.status = "failed"
                 /\ execution.failure_reason = "Failed to parse as json"
                 /\ execution.result_json = Absent
            ELSE IF ~ReturnedData(body).ok
            THEN /\ execution.status = "failed"
                 /\ execution.failure_reason
                      = "Returned data failed to match the expected format"
                 /\ execution.result_json = body
            ELSE IF ReturnedData(body).error
            THEN /\ execution.status = "failed"
                 /\ execution.failure_reason
                      = "Workflow implementation returned an error"
                 /\ execution.result_json = body
            ELSE /\ execution.status = "completed"
                 /\ execution.failure_reason = Absent
                 /\ execution.result_json = body

C26_SideEffect == [](C26_Together) /\ [][C26_Step]_vars

\* Witness of C26: the recorder has recorded a JSON body with an error field
\* for a workflow execution, which is 'failed' and keeps the JSON.
C26_ErrorRecorded ==
  \E j \in 1..Len(workflow_jobs) :
    /\ workflow_jobs[j].execution_id # NULL
    /\ workflow_jobs[j].response_body = "{error}"
    /\ workflow_executions[workflow_jobs[j].workflow_execution_id].status
         = "failed"
    /\ workflow_executions[workflow_jobs[j].workflow_execution_id].result_json
         = "{error}"

\* C27: a token-refill run acts only on a tenant with next_increment < now
\* and tokens < max_tokens, sets tokens to min(tokens + increment,
\* max_tokens), and sets next_increment to now + max(5 min, period) when the
\* new value equals max_tokens, else to now + period when the refill is more
\* than 5 minutes late, else to the old next_increment + period; and nothing
\* else moves next_increment.
C27_Step ==
  \A t \in DOMAIN tenants :
    /\ (tenantLock[t] \in Refillers /\ tenantLock'[t] = Free) =>
         LET old == tenants[t]
             tokens == IF old.tokens + old.increment < old.max_tokens
                       THEN old.tokens + old.increment
                       ELSE old.max_tokens
         IN /\ old.next_increment < now
            /\ old.tokens < old.max_tokens
            /\ tenants'[t].tokens = tokens
            /\ tenants'[t].next_increment =
                 IF tokens = old.max_tokens
                 THEN IF old.period > 5 * SecsPerMinute
                      THEN now + old.period
                      ELSE now + 5 * SecsPerMinute
                 ELSE IF now - old.next_increment > 5 * SecsPerMinute
                      THEN now + old.period
                      ELSE old.next_increment + old.period
    /\ tenants'[t].next_increment # tenants[t].next_increment =>
         tenantLock[t] \in Refillers

C27_Refill == [][C27_Step]_vars

\* Witness of C27: a refill that came more than 5 minutes late and did not
\* fill the bucket has set next_increment to now + period.
C27_LateRefill ==
  \E t \in DOMAIN tenants :
    /\ now > 300 + FiveMinutesSecs
    /\ tenants[t].tokens > 0
    /\ tenants[t].tokens < tenants[t].max_tokens
    /\ tenants[t].next_increment = now + tenants[t].period
    /\ tenants[t].period > FiveMinutesSecs

\* C28: recording an execution, with success true or false, leaves the
\* tokens of every tenant unchanged; tokens fall only when a GetJobs call
\* commits its leases, and rise only when the reaper commits or a refill
\* commits.
C28_Step ==
  /\ (\E j \in DOMAIN executions : executions'[j] # executions[j]) =>
       \A t \in DOMAIN tenants : tenants'[t].tokens = tenants[t].tokens
  /\ \A t \in DOMAIN tenants :
       /\ tenants'[t].tokens < tenants[t].tokens =>
            \E c \in Callers : call[c].pc = "locked" /\ call'[c].pc = "idle"
       /\ tenants'[t].tokens > tenants[t].tokens =>
            \/ \E p \in Reapers :
                 reaper[p].pc = "running" /\ reaper'[p].pc = "idle"
            \/ tenantLock[t] \in Refillers /\ tenantLock'[t] = Free

C28_RecordKeepsTokens == [][C28_Step]_vars

\* Witness of C28: a failed execution of a tenant's job has been recorded
\* and the tenant's token spent on the lease has not come back.
C28_FailureRecorded ==
  \E j \in DOMAIN jobs :
    /\ jobs[j].tenant_id # NoTenant
    /\ Len(executions[j]) = 1
    /\ ~executions[j][1].success
    /\ jobs[j].times_locked = 1
    /\ tenants[jobs[j].tenant_id].tokens = 0
    /\ tenants[jobs[j].tenant_id].max_tokens > 0

\* C29: a GetJobs call for region r leases a row of region r only if its
\* scheduled_at <= now + 3 s and a row of another region only if its
\* scheduled_at <= now - 5 s; so no lease starts more than 3 seconds before
\* the row is due.
C29_Step ==
  \A c \in Callers :
    (call[c].pc = "locked" /\ call'[c].pc = "idle") =>
      \A j \in DOMAIN jobs :
        jobs'[j].times_locked > jobs[j].times_locked =>
          /\ jobs'[j].lock_nonce = now
          /\ jobs[j].scheduled_at <= now + 3
          /\ jobs[j].region # CallerRegion[c] =>
               jobs[j].scheduled_at <= now - 5

C29_RegionWindow == [][C29_Step]_vars

\* Witness of C29: a row was leased exactly 3 seconds before it is due.
C29_LeasedThreeSecondsEarly ==
  \E j \in DOMAIN jobs :
    /\ jobs[j].lock_nonce # NULL
    /\ jobs[j].scheduled_at = jobs[j].lock_nonce + 3

\* C30: the lease reaper resets only rows with lock_nonce set, execution_id
\* null and lock_nonce + timeout + 90 s < now, where timeout is the job's
\* timeout_ms, else the tenant's max_timeout, else 120 s; it changes no
\* completed row, and the tokens it returns to a tenant are no more than the
\* rows of that tenant it reset.
C30_Step ==
  \A p \in Reapers :
    (reaper[p].pc = "running" /\ reaper'[p].pc = "idle") =>
      LET Reset == {j \in DOMAIN jobs :
                      jobs[j].lock_nonce # NULL /\ jobs'[j].lock_nonce = NULL}
      IN /\ \A j \in DOMAIN jobs :
              jobs'[j] # jobs[j] =>
                /\ j \in Reset
                /\ jobs[j].execution_id = NULL
                /\ jobs[j].lock_nonce
                     + (IF jobs[j].timeout_ms # NULL
                        THEN jobs[j].timeout_ms
                        ELSE IF jobs[j].tenant_id # NoTenant
                        THEN tenants[jobs[j].tenant_id].max_timeout
                        ELSE 120000) \div 1000
                     + 90 < now
         /\ \A t \in DOMAIN tenants :
              tenants'[t].tokens - tenants[t].tokens
                <= Cardinality({j \in Reset : jobs[j].tenant_id = t})

C30_ReapsExpiredOnly == [][C30_Step]_vars

\* C31: every failed execution gets at most one successor row
\* (retry_for_id = the failed row), also with several retry planner
\* instances, and a row gets a successor only after an execution with
\* success = FALSE.
C31_OneSuccessor ==
  \A i \in 1..Len(retry_rows) :
    LET Succ == {k \in 1..Len(retry_rows) : retry_rows[k].retry_for_id = i}
    IN /\ Cardinality(Succ) <= 1
       /\ Succ # {} =>
            /\ retry_rows[i].executed_at # NULL
            /\ ~retry_rows[i].success

\* C32: the row of scheduled_jobs that the WaitedExecution scheduler inserts
\* for a workflow execution has scheduled_at = now + 3 min * 2^retry_count
\* when the execution is a retry, retry_count being the number of is_retry
\* executions of the workflow, and now + 3 min otherwise.
C32_Step ==
  \A e \in 1..Len(workflow_executions) :
    (/\ workflow_executions[e].status = "waiting"
     /\ workflow_executions'[e].status = "scheduled") =>
      LET w == workflow_executions[e].workflow_id
          n == Cardinality({k \in ExecutionsOf(w) :
                              workflow_executions[k].is_retry})
          factor == IF workflow_executions[e].is_retry THEN 2 ^ n ELSE 1
      IN \E j \in 1..Len(workflow_jobs') :
           /\ workflow_jobs'[j].workflow_execution_id = e
           /\ workflow_jobs'[j].scheduled_at = now + 180 * factor

C32_Backoff == [][C32_Step]_vars

\* C33: an update of a one-off job deletes only rows of scheduled_jobs that
\* are not dispatched, with lock_nonce null and execution_id null; a row
\* under lease is never deleted by an update.
C33_Step ==
  \A j \in removed' \ removed :
    jobs[j].lock_nonce = NULL /\ jobs[j].execution_id = NULL

C34_Step ==
  \A t \in DOMAIN tenants' :
    (t \notin DOMAIN tenants \/ tenants'[t] # tenants[t]) =>
      /\ 0 <= tenants'[t].tokens
      /\ tenants'[t].tokens <= tenants'[t].max_tokens

C34_ApiKeepsTokenBounds == [][C34_Step]_vars


\* C35: every lease of a scheduled row carries a lock_nonce strictly greater
\* than the nonce of every earlier lease of that row (frames holds the
\* (job_id, lock_nonce) of every lease handed out), so the frame of an earlier
\* lease never matches a later lease.
C35_Step ==
  \A j \in JobIds :
    jobs'[j].times_locked > jobs[j].times_locked =>
      \A f \in frames : f[1] = j => jobs'[j].lock_nonce > f[2]

C35_NoncesIncrease == [][C35_Step]_vars


\* C36: when the reaper and the recorder act on the same leased row, only
\* one of them takes effect: the reaper refunds no token for a candidate row
\* whose execution the recorder has committed.
C36_Step ==
  \A p \in Reapers :
    (reaper[p].pc = "running" /\ reaper'[p].pc = "idle") =>
      \A t \in TenantIds :
        tenants'[t].tokens - tenants[t].tokens
          <= Cardinality({j \in reaper[p].cands :
                            /\ jobs[j].tenant_id = t
                            /\ jobs[j].execution_id = NULL})

C36_ReaperOrRecorder == [][C36_Step]_vars


\* C37: at every moment, under any interleaving of the workflow schedulers
\* and the recorder, every workflow has at most one execution that is neither
\* 'completed' nor 'failed', and its executions carry the distinct indices
\* 0..n without gaps.
C37_OneOpenExecution ==
  \A w \in WorkflowIds :
    /\ Cardinality({e \in ExecutionsOf(w) : ~Terminal(e)}) <= 1
    /\ {workflow_executions[e].execution_index : e \in ExecutionsOf(w)}
         = 0..(Cardinality(ExecutionsOf(w)) - 1)

\* The second execution of a workflow went through the schedulers and the
\* recorder recorded its response.
C37_SecondExecutionRecorded ==
  \E j \in 1..Len(workflow_jobs) :
    /\ workflow_jobs[j].execution_id # NULL
    /\ workflow_executions[workflow_jobs[j].workflow_execution_id]
         .execution_index = 1
    /\ Terminal(workflow_jobs[j].workflow_execution_id)


\* C38: the NoExecution scheduler never selects a workflow whose status is
\* 'completed' or 'failed': its SELECT locks only workflows that are not
\* finalized, so no finalized workflow is processed again.
C38_Step ==
  \A s \in NoExecutionSchedulers :
    (driver[s].pc = "selecting" /\ driver'[s].pc = "running") =>
      workflows[driver'[s].job].status \notin {"completed", "failed"}

C38_FinalizedNotSelected == [][C38_Step]_vars


\* C39: no workflow has more executions with is_retry = TRUE than its
\* max_retries, and a pending workflow whose latest execution failed does not
\* stay so for ever: it is finalized as 'failed' or gets its next execution.
C39_LatestFailed(w) ==
  /\ w \in WorkflowIds
  /\ workflows[w].status = "pending"
  /\ ExecutionsOf(w) # {}
  /\ \A e \in ExecutionsOf(w) : Terminal(e)
  /\ workflow_executions[LatestExecution(w)].failure_reason # Absent
  /\ workflow_executions[LatestExecution(w)].result_json = Absent

C39_RetriesBounded ==
  /\ [](\A w \in WorkflowIds : RetryCount(w) <= workflows[w].max_retries)
  /\ \A w \in 1..MaxWorkflows :
       C39_LatestFailed(w) ~> ~C39_LatestFailed(w)


\* C40: in the drone's store an execution is deleted only while its
\* sync_status is 'synced', whatever insert_execution, get_job_to_sync,
\* cleanup_executions_post_sync, cleanup_executions and record_replication
\* do, and a 'synced' execution never becomes 'local' or 'pending' again.
C40_Step ==
  \A r \in store_executions :
    /\ (\A k \in store_executions' : k.job_id # r.job_id) =>
         r.sync_status = "synced"
    /\ r.sync_status = "synced" =>
         \A k \in store_executions' :
           k.job_id = r.job_id => k.sync_status = "synced"

C40_DeletesSyncedOnly == [][C40_Step]_vars

\* cleanup_executions has deleted the synced execution of response 1 and
\* kept an execution that is not synced and was replicated.
C40_SyncedDeletedOthersKept ==
  /\ store_call.op = "cleanup_executions"
  /\ 1 \notin store_responses
  /\ \E r \in store_executions :
       /\ r.response_id = 2
       /\ r.replicated_times > 0
       /\ r.sync_status \in {"local", "pending"}


====
